---- MODULE Spec2Model ----
(***************************************************************************)
(* State-machine model of the HTTP client core of gitlab-az1/http-request: *)
(* the socket-transport dispatcher with its redirect loop                  *)
(* (src/platform/node/request.ts), the fetch-transport dispatcher          *)
(* (src/platform/browser/request.ts), and the two response wrappers        *)
(* NodeResponse (src/platform/node/response.ts) and BrowserResponse        *)
(* (src/platform/browser/request.ts, second half).                         *)
(*                                                                         *)
(* One logical caller request is modelled: the caller's options object,    *)
(* the chain of dispatch attempts it produces, the cancellation token with *)
(* its ordered listener list, the promise returned to the caller, the      *)
(* terminal response and the body accessor calls made on it.               *)
(***************************************************************************)
EXTENDS Integers, Sequences, FiniteSets, TLC

\* ------------------------------------------------------------------ bounds
\* Largest hop budget a caller passes explicitly in followRedirects.
MaxHops == 2
\* Number of body chunks a body-bearing reply delivers.
MaxChunks == 2
\* Number of body accessor calls made on one response.
MaxCalls == 2
\* Longest body a server compresses, in bytes.
MaxPayload == 2
\* Number of on / once / off calls made on one response.
MaxSubs == 3
\* Number of dispose calls made on one response.
MaxDisposals == 2
\* Longest user name and longest password a caller passes.
MaxCredential == 2
\* Calls made on the EventEmitter driven on its own, and the largest
\* listener cap it is constructed with.
MaxEmitterOps == 4
MaxListeners == 2
\* Longest buffer a BufferReader is constructed over, and the number of
\* read calls made on it.
MaxBuffer == 3
MaxReads == 3

\* --------------------------------------------------------------- constants
\* request.ts:50-52, the hop budget filled in when followRedirects is absent.
DefaultFollowRedirects == 5

\* followRedirects left out of the options (typeof !== 'number'): encoded
\* by a value outside the budgets 0..MaxHops the callers of the model pass.
Absent == 0 - 1
Transports == {"node", "fetch"}
Methods == {"GET", "HEAD"}
\* Reply status codes: one informational, one body-bearing success, the two
\* body-less codes 204/304 and one redirect code.
Statuses == {101, 200, 204, 302, 304}
Accessors == {"text", "json", "bytes", "blob", "arrayBuffer", "buffer",
              "formData", "readableSource"}
\* What an aborted fetch rejects with is the reason the token library hands
\* to the listener (ac.abort(reason)): outside this repository, so either.
AbortReasons == {"ABORT_ERR", "ERR_TOKEN_CANCELLED"}

VARIABLES
  transport,      \* "node" | "fetch": which request() implementation runs
  callerOptions,  \* the options object the caller passed to request()
  options,        \* the options object of the current dispatch attempt
  hop,            \* number of request() calls made for this chain so far
  phase,          \* "start" | "delay" | "inflight" | "done"
  opened,         \* number of transport requests created (http.request / fetch)
  req,            \* current transport request: "none" | "open" | "replied" | "destroyed"
  redirected,     \* redirected[h]: the local `redirected` of attempt h
  token,          \* [cancelled, listeners]: the cancellation token
  outcome,        \* the promise returned to the caller
  resp,           \* the terminal response object
  body,           \* the transport body stream and its buffer
  calls,          \* body accessor calls made on resp, in call order
  timer,          \* the timeout timer of the current attempt
  opts,           \* what the current attempt hands to http.request / fetch
  proxy,          \* module configuration, environment and the agent chosen
  hdr,            \* a header input and what the normalizer made of it
  hist,           \* history of the run, read only by the properties
  reply,          \* what the server answers the terminal request with
  ev,             \* the event emitter of resp and what it has emitted
  pipe,           \* the stream pipeline between the transport and resp
  em,             \* an EventEmitter of its own, driven call by call
  rd              \* a BufferReader of its own, driven call by call

vars == <<transport, callerOptions, options, hop, phase, opened, req,
          redirected, token, outcome, resp, body, calls, timer, opts, proxy,
          hdr, hist, reply, ev, pipe, em, rd>>

\* -------------------------------------------------------------------- URLs
\* A URL string is the sequence of its parts, e.g.
\* <<"https:", "//", "host", ":8080", "/a", "?q">>; the empty sequence is
\* the empty (or missing) string.
Schemes == {"http:", "https:"}
PortParts == {":8080"}
QueryParts == {"?q"}

NoUrl == <<>>

\* The parts of s from position i on.
Rest(s, i) == IF i > Len(s) THEN <<>> ELSE SubSeq(s, i, Len(s))

\* Position of the first query part of s, Len(s) + 1 when there is none.
RECURSIVE QueryAt(_, _)
QueryAt(s, i) ==
  IF i > Len(s) THEN i
  ELSE IF s[i] \in QueryParts THEN i ELSE QueryAt(s, i + 1)

\* url.parse(u.toString()), request.ts:77 and :251: protocol, hostname and
\* port are read only after a scheme followed by "//"; everything else is
\* the path, which the first "?" splits into pathname and search.
parseUrl(s) ==
  LET hasHost == Len(s) >= 3 /\ s[1] \in Schemes /\ s[2] = "//"
      hasPort == hasHost /\ Len(s) >= 4 /\ s[4] \in PortParts
      path == IF hasHost THEN Rest(s, IF hasPort THEN 5 ELSE 4) ELSE s
      q == QueryAt(path, 1)
  IN [protocol |-> IF hasHost THEN s[1] ELSE "",
      hostname |-> IF hasHost THEN s[3] ELSE "",
      port |-> IF hasPort THEN s[4] ELSE "",
      path |-> path,
      pathname |-> SubSeq(path, 1, q - 1),
      search |-> Rest(path, q)]

\* What url.format does to pathname: a literal "?" becomes "%3F".
RECURSIVE EscapePathname(_)
EscapePathname(s) ==
  IF s = <<>> THEN <<>>
  ELSE <<IF Head(s) = "?q" THEN "%3Fq" ELSE Head(s)>> \o EscapePathname(Tail(s))

\* url.format({ protocol, hostname, port, pathname }), request.ts:145-150
format(protocol, hostname, port, pathname) ==
  <<protocol, "//", hostname>>
    \o (IF port = "" THEN <<>> ELSE <<port>>)
    \o EscapePathname(pathname)

\* location.startsWith('/'), request.ts:144
StartsWithSlash(s) == s # <<>> /\ Head(s) \in {"/a", "/b", "/c", "/x", "//"}

\* The target of the next dispatch of a redirect, request.ts:142-151 and :156.
RedirectTarget(endpoint, location) ==
  IF StartsWithSlash(location)
  THEN format(endpoint.protocol, endpoint.hostname, endpoint.port, location)
  ELSE location

\* The URLs callers ask for and the Location values servers answer with
\* (NoUrl: no Location header).
Urls == {<<"https:", "//", "host", "/a", "/b">>,
         <<"http:", "//", "host", ":8080", "/a">>}
Locations == {NoUrl,
              <<"/c">>,
              <<"/c", "?q">>,
              <<"https:", "//", "other", "/x">>}

\* ------------------------------------------------------------------- proxy
\* A proxy URL is a URL string as above; NoUrl is an unset variable or an
\* unconfigured proxy.
\* The values one candidate (the configured URL, an
\* environment variable) can have: unset, an http URL, a URL of another
\* scheme; the host tells the candidates apart.
ProxyUrls(host) == {NoUrl, <<"http:", "//", host>>, <<"socks:", "//", host>>}

NoAgent == [kind |-> "absent", url |-> NoUrl]
NullAgent == [kind |-> "null", url |-> NoUrl]
ExplicitAgent == [kind |-> "explicit", url |-> NoUrl]

\* a || b on strings: the first one that is not empty
Or(a, b) == IF a # <<>> THEN a ELSE b

\* getSystemProxyURI(requestURL), request.ts:235-243
getSystemProxyURI(requestURL, env) ==
  IF requestURL.protocol = "http:"
  THEN Or(env.HTTP_PROXY, env.http_proxy)
  ELSE IF requestURL.protocol = "https:"
       THEN Or(env.HTTPS_PROXY, Or(env.https_proxy,
                                   Or(env.HTTP_PROXY, env.http_proxy)))
       ELSE NoUrl

\* getProxyAgent(rawRequestURL, { proxyUrl, strictSSL }), request.ts:250-261
getProxyAgentFallThrough(rawRequestURL, proxyUrl, env) ==
  LET requestURL == parseUrl(rawRequestURL)
      sys == getSystemProxyURI(requestURL, env)
      proxyURL == IF proxyUrl # <<>> /\ Head(proxyUrl) \in Schemes
                  THEN proxyUrl ELSE sys
  IN IF proxyURL = <<>> THEN NullAgent
     ELSE IF Head(proxyURL) \notin Schemes THEN NullAgent
     ELSE [kind |-> IF requestURL.protocol = "http:"
                    THEN "HttpProxyAgent" ELSE "HttpsProxyAgent",
           url |-> proxyURL]

getProxyAgent(rawRequestURL, proxyUrl, env) ==
  LET requestURL == parseUrl(rawRequestURL)
      proxyURL == Or(proxyUrl, getSystemProxyURI(requestURL, env))
  IN IF proxyURL = <<>> THEN NullAgent
     ELSE IF Head(proxyURL) \notin Schemes THEN NullAgent
     ELSE [kind |-> IF requestURL.protocol = "http:"
                    THEN "HttpProxyAgent" ELSE "HttpsProxyAgent",
           url |-> proxyURL]

\* Module state of node/request.ts (:17-18) and the process environment:
\* nothing configured, nothing set.
NoEnv == [HTTP_PROXY |-> NoUrl, http_proxy |-> NoUrl,
          HTTPS_PROXY |-> NoUrl, https_proxy |-> NoUrl]
NoProxy == [proxyUrl |-> NoUrl, strictSSL |-> "true", env |-> NoEnv]

\* ----------------------------------------------------------------- headers
\* A header name is the sequence of its characters.  A header value (a
\* string) is the sequence of the parts its commas separate, blanks around
\* a part left out: <<"x">> is "x", <<"x", "y">> is "x,y" as well as
\* "x, y".  A value slot of a pair or mapping entry is undefined, one string,
\* or an array of strings.
Undefined == [kind |-> "undefined", items |-> <<>>]
String(v) == [kind |-> "string", items |-> <<v>>]
Array(vs) == [kind |-> "array", items |-> vs]

\* String.prototype.toLowerCase
LowerChar(c) == IF c = "A" THEN "a" ELSE IF c = "B" THEN "b" ELSE c
toLowerCase(name) == [i \in DOMAIN name |-> LowerChar(name[i])]

\* String.prototype.trim
RECURSIVE trimStart(_)
trimStart(name) ==
  IF name # <<>> /\ Head(name) = " " THEN trimStart(Tail(name)) ELSE name
RECURSIVE trimEnd(_)
trimEnd(name) ==
  IF name # <<>> /\ name[Len(name)] = " "
  THEN trimEnd(SubSeq(name, 1, Len(name) - 1)) ELSE name
trim(name) == trimEnd(trimStart(name))

\* Headers.prototype.append(name, value): the header list in append order,
\* names lower-cased.
HeadersAppend(h, name, value) ==
  Append(h, [name |-> toLowerCase(name), value |-> value])

RECURSIVE HeadersAppendAll(_, _, _)
HeadersAppendAll(h, name, values) ==
  IF values = <<>> THEN h
  ELSE HeadersAppendAll(HeadersAppend(h, name, Head(values)), name, Tail(values))

\* The loops of parseHeaders over a pair list (xhr.ts:93-107) and over the
\* entries of a mapping (xhr.ts:108-121): the same steps.
RECURSIVE AppendEntries(_, _)
AppendEntries(h, items) ==
  IF items = <<>> THEN h
  ELSE LET key == Head(items).key
           values == Head(items).value
           h1 == IF values.kind = "undefined" THEN h
                 ELSE HeadersAppendAll(h, trim(toLowerCase(key)), values.items)
       IN AppendEntries(h1, Tail(items))

\* parseHeaders(source), xhr.ts:87-124: a native header set is returned as
\* it is.
parseHeaders(source) ==
  IF source.form = "native" THEN source.items
  ELSE AppendEntries(<<>>, source.items)

\* The names a header set can hold, in the sort order of its iterator.
SortedNames == << <<"a">>, <<"b">> >>

\* The values of name n in header list h, combined with ", ".
RECURSIVE JoinReversed(_, _)
JoinReversed(h, n) ==
  IF h = <<>> THEN <<>>
  ELSE JoinReversed(Tail(h), n) \o (IF Head(h).name = n THEN Head(h).value ELSE <<>>)

RECURSIVE Join(_, _)
Join(h, n) ==
  IF h = <<>> THEN <<>>
  ELSE (IF Head(h).name = n THEN Head(h).value ELSE <<>>) \o Join(Tail(h), n)

\* Headers.prototype.entries(): one pair per name, sorted by name, the
\* values of a name combined.
RECURSIVE EntriesUnsorted(_, _)
EntriesUnsorted(h, i) ==
  IF i > Len(h) THEN <<>>
  ELSE (IF \E j \in 1..(i - 1) : h[j].name = h[i].name THEN <<>>
        ELSE << [name |-> h[i].name, value |-> Join(h, h[i].name)] >>)
       \o EntriesUnsorted(h, i + 1)

RECURSIVE Entries(_, _)
Entries(h, i) ==
  IF i > Len(SortedNames) THEN <<>>
  ELSE (IF \E j \in DOMAIN h : h[j].name = SortedNames[i]
        THEN << [name |-> SortedNames[i], value |-> Join(h, SortedNames[i])] >>
        ELSE <<>>)
       \o Entries(h, i + 1)

\* value.split(',').map(item => item.trim()), then a single item stays a
\* string (xhr.ts:131-136).
SplitValue(value) ==
  IF Len(value) = 1 THEN String(value)
  ELSE Array([i \in DOMAIN value |-> <<value[i]>>])

\* headersEntries(source), xhr.ts:126-140
headersEntries(source) ==
  LET es == Entries(parseHeaders(source), 1)
  IN [i \in DOMAIN es |-> [key |-> trim(toLowerCase(es[i].name)),
                           value |-> SplitValue(es[i].value)]]

\* Header inputs.
MaxHeaders == 2
HeaderNames == {<<"A">>, <<"a", " ">>, <<"b">>}
HeaderValues == {Undefined, String(<<"x">>), String(<<"x", "y">>),
                 Array(<< <<"x">>, <<"y">> >>)}
HeaderEntries == [key : HeaderNames, value : HeaderValues]
NativeEntries == [name : {<<"a">>, <<"b">>}, value : {<<"x">>, <<"x", "y">>}]

SeqsUpTo(S, n) == UNION {[1..k -> S] : k \in 0..n}

PairInputs == [form : {"pairs"}, items : SeqsUpTo(HeaderEntries, MaxHeaders)]
MappingInputs ==
  [form : {"mapping"},
   items : {m \in SeqsUpTo(HeaderEntries, MaxHeaders) :
              \A i, j \in DOMAIN m : i # j => m[i].key # m[j].key}]
NativeInputs == [form : {"native"}, items : SeqsUpTo(NativeEntries, MaxHeaders)]
HeaderInputs == PairInputs \cup MappingInputs \cup NativeInputs

\* The inputs a first input is compared with: the three forms again, over
\* two names and the string values.
PeerEntries == [key : {<<"a">>, <<"B">>},
                value : {v \in HeaderValues : v.kind = "string"}]
PeerInputs ==
  [form : {"pairs"}, items : SeqsUpTo(PeerEntries, MaxHeaders)]
  \cup [form : {"mapping"},
        items : {m \in SeqsUpTo(PeerEntries, MaxHeaders) :
                   \A i, j \in DOMAIN m : i # j => m[i].key # m[j].key}]
  \cup NativeInputs

NoInput == [form |-> "none", items |-> <<>>]
NoHdr == [a |-> NoInput, b |-> NoInput, step |-> 0,
          pa |-> <<>>, pb |-> <<>>, ea |-> <<>>, eb |-> <<>>,
          pa2 |-> <<>>, ea2 |-> <<>>]

\* ---------------------------------------------------------------- promises
Pending == [state |-> "pending", kind |-> "none"]
Resolved == [state |-> "resolved", kind |-> "response"]
Rejected(k) == [state |-> "rejected", kind |-> k]

\* resolve()/reject() of a promise: only the first settlement counts.
Settle(p, new) == IF p.state = "pending" THEN new ELSE p

\* ------------------------------------------------------------------- token
Listener(k, h) == [kind |-> k, hop |-> h]

\* token.isCancellationRequested
IsCancellationRequestedNever(tok) == FALSE

IsCancellationRequested(tok) == tok.cancelled

\* token.onCancellationRequested(l1); token.onCancellationRequested(l2); ...
Subscribe(tok, ls) == [tok EXCEPT !.listeners = @ \o ls]

\* The subscriptions one dispatch attempt makes before its reply arrives:
\* node request.ts:69-72 (ac.abort, then throw) and :223-225 (req.destroy);
\* browser request.ts:41-44 (ac.abort, then throw).
AttemptListeners(tr, h) ==
  IF tr = "node"
  THEN <<Listener("abort", h), Listener("destroyReq", h)>>
  ELSE <<Listener("abort", h)>>

\* ---------------------------------------------------------------- response
NoResp == [impl |-> "none", status |-> 0, redirected |-> FALSE,
           bodyUsed |-> FALSE, nullBody |-> FALSE, totalLength |-> 0]
NoBody == [state |-> "none", total |-> 0, delivered |-> 0, writer |-> <<>>,
           processed |-> FALSE, disturbed |-> FALSE, isJson |-> FALSE]

\* hasNoBody(method, code), response.ts:15-20
hasNoBody(method, code) ==
  \/ method = "HEAD"
  \/ (code >= 100 /\ code < 200)
  \/ code = 204
  \/ code = 304

\* String(ins.#raw.method).toUpperCase() in NodeResponse.#hasNoBody: #raw is
\* the WrappedResponse of request.ts:264-284, which copies headers,
\* statusCode, statusMessage and httpVersion and has no `method`.
RawMethod == "UNDEFINED"

\* NodeResponse.#hasNoBody(ins), response.ts:23-28
NodeHasNoBody(r) == hasNoBody(RawMethod, r.status)

\* Number of chunks the transport delivers for a reply: none for a reply to
\* HEAD or with a body-less status, else the chunks the body arrives in.
ChunksOf(method, status, wire) ==
  IF hasNoBody(method, status) THEN 0 ELSE Len(wire)

\* readable.destroy() (request.ts:188, :192): a stream that has not ended
\* stops for good without emitting 'end'; the bytes already buffered by
\* the response (its BufferWriter) are not the stream's and stay.
DestroyReadableDropsBuffer(b) ==
  IF b.state \in {"flowing", "idle", "ended"}
  THEN [b EXCEPT !.state = "destroyed", !.writer = <<>>]
  ELSE b

DestroyReadable(b) ==
  IF b.state \in {"flowing", "idle"} THEN [b EXCEPT !.state = "destroyed"] ELSE b

\* #totalLength as #parseHeaders leaves it (response.ts:47, :287-301;
\* browser request.ts:359, :364-370): the content-length header read as a
\* number, 0 without the header or when it is not a number.
NotANumber == 0 - 2
TotalLength(contentLength) ==
  IF contentLength < 0 THEN 0 ELSE contentLength

\* new NodeResponse(new WrappedResponse(res, readable), redirected):
\* constructor response.ts:39-55, with #init (response.ts:250-277) deciding
\* whether the stream is listened to at all.
NewNodeResponse(status, redir, contentLength) ==
  [impl |-> "node", status |-> status, redirected |-> redir,
   bodyUsed |-> FALSE, nullBody |-> FALSE,
   totalLength |-> TotalLength(contentLength)]

NodeInit(r, method, json, wire) ==
  IF NodeHasNoBody(r)
  THEN [state |-> "idle", total |-> ChunksOf(method, r.status, wire),
        delivered |-> 0,
        writer |-> <<>>, processed |-> TRUE, disturbed |-> FALSE, isJson |-> FALSE]
  ELSE [state |-> "flowing", total |-> ChunksOf(method, r.status, wire),
        delivered |-> 0,
        writer |-> <<>>, processed |-> FALSE, disturbed |-> FALSE,
        isJson |-> json /\ ChunksOf(method, r.status, wire) > 0]

\* new BrowserResponse(res), browser/request.ts:131-143; res.body is null or
\* a stream as the engine decides.
NewBrowserResponse(status, redir, nullBody, contentLength) ==
  [impl |-> "browser", status |-> status, redirected |-> redir,
   bodyUsed |-> FALSE, nullBody |-> nullBody,
   totalLength |-> TotalLength(contentLength)]

BrowserBody(nullBody, json) ==
  [state |-> IF nullBody THEN "idle" ELSE "flowing",
   total |-> IF nullBody THEN 0 ELSE MaxChunks, delivered |-> 0,
   writer |-> <<>>, processed |-> FALSE, disturbed |-> FALSE, isJson |-> json]

\* ------------------------------------------------------------- compression
\* A body is a sequence of bytes; the bytes of a payload are small numbers.
\* The compressed forms are written byte by byte: a magic byte, one coded
\* byte for each payload byte, a checksum byte.
PayloadBytes == 1..MaxPayload
GzipMagic == 31
ZlibMagic == 120
BrotliMagic == 206
Checksum == 255

Coded(seq, offset) == [i \in DOMAIN seq |-> seq[i] + offset]

\* What a server sends for payload P under each content-encoding.
gzip(P) == <<GzipMagic>> \o Coded(P, 32) \o <<Checksum>>
deflate(P) == <<ZlibMagic>> \o Coded(P, 64) \o <<Checksum>>
brotli(P) == <<BrotliMagic>> \o Coded(P, 96)

Encodings == {"none", "gzip", "deflate", "br"}

Encode(encoding, P) ==
  CASE encoding = "gzip" -> gzip(P)
    [] encoding = "deflate" -> deflate(P)
    [] encoding = "br" -> brotli(P)
    [] OTHER -> P

\* What zlib.createGunzip / zlib.createInflate (request.ts:170, :175) write
\* for one chunk of input: the payload bytes the chunk codes; the magic and
\* the checksum yield nothing.
RECURSIVE Inflate(_, _)
Inflate(chunk, offset) ==
  IF chunk = <<>> THEN <<>>
  ELSE (IF Head(chunk) - offset \in PayloadBytes
        THEN <<Head(chunk) - offset>> ELSE <<>>)
       \o Inflate(Tail(chunk), offset)

\* The stage put between the transport stream and the response,
\* request.ts:160-180.
DecompressionStageIgnoringBody(method, status, encoding) ==
  IF encoding = "gzip" THEN "gunzip"
  ELSE IF encoding = "deflate" THEN "inflate"
  ELSE "none"

DecompressionStage(method, status, encoding) ==
  IF encoding # "none" /\ ~hasNoBody(method, status)
  THEN IF encoding = "gzip" THEN "gunzip"
       ELSE IF encoding = "deflate" THEN "inflate"
       ELSE "none"
  ELSE "none"

\* What the stage hands on for one chunk of the transport stream.
StageOutput(stage, chunk) ==
  CASE stage = "gunzip" -> Inflate(chunk, 32)
    [] stage = "inflate" -> Inflate(chunk, 64)
    [] OTHER -> chunk

\* The ways a transport delivers the bytes of seq in at most n chunks, none
\* of them empty.
RECURSIVE Chunkings(_, _)
Chunkings(seq, n) ==
  IF seq = <<>> THEN {<<>>}
  ELSE IF n = 0 THEN {}
  ELSE UNION {{<<SubSeq(seq, 1, k)>> \o rest :
                 rest \in Chunkings(SubSeq(seq, k + 1, Len(seq)), n - 1)} :
              k \in 1..Len(seq)}

\* ------------------------------------------------------------------- reply
\* The terminal reply of the server: the content-length and content-encoding
\* headers, the payload, and the chunks its encoded body arrives in.
ReplyOf(contentLength, encoding, payload, wire) ==
  [contentLength |-> contentLength, encoding |-> encoding,
   payload |-> payload, wire |-> wire]

\* A reply without either header whose body arrives byte by byte.
PlainReply ==
  ReplyOf(Absent, "none", [i \in 1..MaxChunks |-> i],
          [i \in 1..MaxChunks |-> <<i>>])

\* ----------------------------------------------------------- event emitter
Events == {"headers-received", "progress"}
Listeners == {"l1"}

\* new EventEmitter(), events.ts:26-37, with what the properties read:
\* how often headers-received was emitted, what each listener was told, the
\* progress events in emission order.
NoEv == [listeners |-> [e \in Events |-> [l \in Listeners |-> "off"]],
         emitted |-> FALSE,    \* #emittedHeadersReceived
         scheduled |-> 0,      \* deferred emissions not yet run
         fired |-> 0,          \* emit('headers-received') calls that ran
         seen |-> [l \in Listeners |-> 0],
         early |-> {},         \* listeners subscribed on receipt of resp
         asked |-> FALSE,      \* on / once was called for headers-received
         subs |-> 0,           \* on / once / off calls so far
         progress |-> <<>>,
         disposed |-> FALSE,   \* #disposed
         disposals |-> 0]      \* dispose calls so far

\* EventEmitter.addListener, events.ts:39-105: a callback already in the set
\* is not added again and keeps its options.
AddListener(e, event, l, once) ==
  IF e.listeners[event][l] # "off" THEN e
  ELSE [e EXCEPT !.listeners[event][l] = IF once THEN "once" ELSE "on"]

\* EventEmitter.removeListener, events.ts:107-131
RemoveListener(e, event, l) == [e EXCEPT !.listeners[event][l] = "off"]

\* EventEmitter.emit, events.ts:157-189: every listener of the event is
\* called, a once-listener is removed after its call.
Emit(e, event) ==
  [e EXCEPT
     !.listeners[event] = [l \in Listeners |-> IF @[l] = "once" THEN "off" ELSE @[l]],
     !.fired = IF event = "headers-received" THEN @ + 1 ELSE @,
     !.seen = [l \in Listeners |->
                 IF event = "headers-received" /\ e.listeners[event][l] # "off"
                 THEN @[l] + 1 ELSE @[l]]]

\* The first lines of BrowserResponse.on / once, browser request.ts:289-302
\* and :319-332: the first subscription to headers-received schedules the
\* emission and sets #emittedHeadersReceived.
ScheduleHeadersReceivedEveryTime(e, event) ==
  IF event = "headers-received"
  THEN [e EXCEPT !.scheduled = @ + 1, !.emitted = TRUE]
  ELSE e

ScheduleHeadersReceived(e, event) ==
  IF event = "headers-received" /\ ~e.emitted
  THEN [e EXCEPT !.scheduled = @ + 1, !.emitted = TRUE]
  ELSE e

\* The pipeline of the terminal response: the decompression stage chosen,
\* whether dispose() released the transport stream, whether a stage or the
\* transport stream has emitted 'error'.
NoPipe == [stage |-> "none", released |-> FALSE, errored |-> FALSE]

\* ------------------------------------------------------------ EventEmitter
\* events.ts:14-276.  #listeners and #metadata map an event to a Set and a
\* Map object; both are created together and deleted together, so one
\* bucket stands for the pair.  A bucket is the sequence of its entries in
\* insertion order; buckets are objects: em.buckets[b] is the object with
\* identity b, em.map[event] the identity the maps hold for the event
\* (0: no entry).  The disposer addListener returns keeps the objects it
\* was created with.
DefaultMaxListeners == 30
EmEvents == {"x", "y"}
Callbacks == {"f", "g", "h"}

NoLast == [op |-> "none", result |-> "none"]

NewEmitter(n) ==
  [map |-> [e \in EmEvents |-> 0],
   buckets |-> <<>>,
   handles |-> <<>>,       \* the disposers handed out, in order
   max |-> n,              \* #maxListeners
   ops |-> 0,              \* calls made so far
   onceRuns |-> 0,         \* most invocations any once registration has had
   last |-> NoLast]        \* how the last addListener call ended

Has(bucket, cb) == \E i \in DOMAIN bucket : bucket[i].cb = cb
Without(bucket, cb) == SelectSeq(bucket, LAMBDA x : x.cb # cb)
EntryOf(bucket, cb) == bucket[CHOOSE i \in DOMAIN bucket : bucket[i].cb = cb]
CallbacksOf(bucket) == [i \in DOMAIN bucket |-> bucket[i].cb]

\* set.delete(callback) on the Set object b, then
\* `if(set.size === 0) { #listeners.delete(event); #metadata.delete(event) }`
\* (events.ts:98-103, :120-128, :176-184): the maps are cleared by key,
\* whichever object they hold for the event by now.
DeleteFrom(e, event, b, cb) ==
  LET bucket == Without(e.buckets[b], cb)
  IN [e EXCEPT !.buckets[b] = bucket,
               !.map[event] = IF bucket = <<>> THEN 0 ELSE @]

\* addListener(event, callback, thisArgs, disposables, { once }),
\* events.ts:39-105.  The result carries the emitter and how the call ended.
AddListenerUncapped(e, event, cb, once) ==
  LET fresh == e.map[event] = 0
      e0 == IF fresh
            THEN [e EXCEPT !.buckets = Append(@, <<>>),
                           !.map[event] = Len(e.buckets) + 1]
            ELSE e
      b == e0.map[event]
  IN IF Has(e0.buckets[b], cb)
     THEN [e0 EXCEPT !.handles = Append(@, [event |-> event, bucket |-> b,
                                            cb |-> cb, kind |-> "noop",
                                            disposed |-> FALSE]),
                     !.last = [op |-> "addListener", result |-> "ok",
                                event |-> event, cb |-> cb]]
     ELSE [e0 EXCEPT !.buckets[b] = Append(@, [cb |-> cb, once |-> once,
                                               runs |-> 0]),
                     !.handles = Append(@, [event |-> event, bucket |-> b,
                                            cb |-> cb, kind |-> "remove",
                                            disposed |-> FALSE]),
                     !.last = [op |-> "addListener", result |-> "ok",
                                event |-> event, cb |-> cb]]

AddListenerTo(e, event, cb, once) ==
  LET fresh == e.map[event] = 0
      e0 == IF fresh
            THEN [e EXCEPT !.buckets = Append(@, <<>>),
                           !.map[event] = Len(e.buckets) + 1]
            ELSE e
      b == e0.map[event]
  IN IF Has(e0.buckets[b], cb)
     THEN [e0 EXCEPT !.handles = Append(@, [event |-> event, bucket |-> b,
                                            cb |-> cb, kind |-> "noop",
                                            disposed |-> FALSE]),
                     !.last = [op |-> "addListener", result |-> "ok",
                                event |-> event, cb |-> cb]]
     ELSE IF Len(e0.buckets[b]) >= e0.max
          THEN [e0 EXCEPT !.last = [op |-> "addListener",
                                    result |-> "ERR_LIMIT_REACHED",
                                    event |-> event, cb |-> cb]]
          ELSE [e0 EXCEPT !.buckets[b] = Append(@, [cb |-> cb, once |-> once,
                                                    runs |-> 0]),
                          !.handles = Append(@, [event |-> event, bucket |-> b,
                                                 cb |-> cb, kind |-> "remove",
                                                 disposed |-> FALSE]),
                          !.last = [op |-> "addListener", result |-> "ok",
                                event |-> event, cb |-> cb]]

\* The disposer returned by addListener, events.ts:62-67 and :91-104.
DisposeHandle(e, k) ==
  LET h == e.handles[k]
      e0 == [e EXCEPT !.handles[k].disposed = TRUE]
  IN IF h.kind = "noop" THEN e0
     ELSE DeleteFrom(e0, h.event, h.bucket, h.cb)

\* removeListener(event, callback), events.ts:107-131
RemoveListenerFrom(e, event, cb) ==
  LET b == e.map[event]
  IN IF b = 0 THEN e
     ELSE IF ~Has(e.buckets[b], cb) THEN e
     ELSE DeleteFrom(e, event, b, cb)

\* removeManyListeners(event), events.ts:133-145
RemoveManyListenersOf(e, event) == [e EXCEPT !.map[event] = 0]

\* The loop of emit and of fire, events.ts:167-186 and :203-220, over the
\* snapshot [...set] taken when the call began.  Listener r, the first time
\* it runs in the outermost call, emits the same event itself.  A once
\* entry is deleted after its listener has returned.
MaxDepth == 1

RECURSIVE EmitLoop(_, _, _, _, _, _)
RECURSIVE EmitCall(_, _, _, _)

EmitLoop(e, event, b, snapshot, r, depth) ==
  IF snapshot = <<>> THEN e
  ELSE LET l == Head(snapshot)
       IN IF ~Has(e.buckets[b], l)
          \* `if(!meta) continue`
          THEN EmitLoop(e, event, b, Tail(snapshot), r, depth)
          ELSE LET meta == EntryOf(e.buckets[b], l)
                   i == CHOOSE j \in DOMAIN e.buckets[b] : e.buckets[b][j].cb = l
                   \* the listener is invoked
                   e1 == IF meta.once
                         THEN [e EXCEPT !.buckets[b][i].runs = @ + 1,
                                        !.onceRuns = IF meta.runs + 1 > @
                                                     THEN meta.runs + 1 ELSE @]
                         ELSE e
                   \* and may emit from inside
                   e2 == IF l = r /\ depth < MaxDepth
                         THEN EmitCall(e1, event, r, depth + 1)
                         ELSE e1
                   e3 == IF meta.once THEN DeleteFrom(e2, event, b, l) ELSE e2
               IN EmitLoop(e3, event, b, Tail(snapshot), r, depth)

EmitCall(e, event, r, depth) ==
  IF e.map[event] = 0 THEN e
  ELSE EmitLoop(e, event, e.map[event],
                CallbacksOf(e.buckets[e.map[event]]), r, depth)

\* listenerCount(event), events.ts:225-241
listenerCount(e, event) ==
  IF e.map[event] = 0 THEN 0 ELSE Len(e.buckets[e.map[event]])

Registered(e, event, cb) ==
  e.map[event] # 0 /\ Has(e.buckets[e.map[event]], cb)

\* ------------------------------------------------------------ BufferReader
\* new BufferReader(buffer) (events.ts:332-342): the cursor starts at 0.
\* `returned` is the concatenation of the slices read() has returned, `last`
\* the outcome of the latest call and `wasConsumed` whether that call found
\* the reader consumed; all three are history.
ByteValues == {1, 2}

Buffers == UNION {[1..n -> ByteValues] : n \in 0..MaxBuffer}

NoRead == [result |-> "none", chunk |-> <<>>]

NewReader(buffer) ==
  [buffer |-> buffer, cursor |-> 0, returned |-> <<>>, reads |-> 0,
   last |-> NoRead, wasConsumed |-> FALSE]

\* Buffer.subarray(start, end): both ends are clamped to the length.
subarray(buffer, start, end) ==
  LET lo == IF start > Len(buffer) THEN Len(buffer) ELSE start
      hi == IF end > Len(buffer) THEN Len(buffer) ELSE end
  IN IF hi <= lo THEN <<>> ELSE SubSeq(buffer, lo + 1, hi)

\* assertUnsignedInteger(bytes) passes for the integers from 0 on.
IsUnsignedInteger(bytes) == bytes \in Nat

ReadThrew(r, kind) ==
  [r EXCEPT !.last = [result |-> kind, chunk |-> <<>>]]

ReadReturned(r, chunk, cursor) ==
  [r EXCEPT !.cursor = cursor,
            !.returned = @ \o chunk,
            !.last = [result |-> "ok", chunk |-> chunk]]

\* read(bytes) (events.ts:344-359); `given` is typeof bytes === 'number'.
\* Without a count the cursor moves to the end and the slice returned is
\* subarray(0), the buffer from its first byte.
Read(r, given, bytes) ==
  IF r.cursor >= Len(r.buffer) THEN ReadThrew(r, "ERR_END_OF_STREAM")
  ELSE IF ~given
    THEN ReadReturned(r, subarray(r.buffer, 0, Len(r.buffer)), Len(r.buffer))
  ELSE IF ~IsUnsignedInteger(bytes) THEN ReadThrew(r, "assertion")
  ELSE LET chunk == subarray(r.buffer, r.cursor, r.cursor + bytes)
       IN ReadReturned(r, chunk, r.cursor + Len(chunk))

\* get readable, get byteLength (events.ts:361-367).
readable(r) == r.cursor < Len(r.buffer)

byteLength(r) == Len(r.buffer) - r.cursor

\* ---------------------------------------------------------------- dispatch
\* request.ts:42-52: the defaults, written into the options object itself:
\* strictSSL from the module state, the agent from getProxyAgent unless one
\* is set (null counts as not set), the default hop budget.  (Node only;
\* the browser request() fills no defaults.)
FillDefaults(tr, o, px) ==
  IF tr = "node"
  THEN [o EXCEPT
          !.strictSSL = IF @ = "absent" THEN px.strictSSL ELSE @,
          !.agent = IF @.kind \in {"absent", "null"}
                    THEN getProxyAgent(o.url, px.proxyUrl, px.env) ELSE @,
          !.followRedirects = IF @ = Absent THEN DefaultFollowRedirects ELSE @]
  ELSE o

\* options.timeout as the two dispatchers test it: `if(options.timeout)`
\* (request.ts:205) and `typeof options.timeout === 'number'`
\* (browser request.ts:86).
HasTimeout(tr, o) ==
  IF tr = "node" THEN o.timeout # Absent /\ o.timeout # 0
  ELSE o.timeout # Absent

\* What an attempt hands to its transport: opts of request.ts:124-134 with
\* the parsed endpoint, reqInit and u of browser request.ts:46-54, :102.
\* btoa of the platform: the base64 text of a string of code points, each of
\* which must fit a byte; sextets are numbered 0..63 and Pad stands for '='.
Pad == 64

RECURSIVE Base64(_)
Base64(bytes) ==
  IF bytes = <<>> THEN <<>>
  ELSE LET n == Len(bytes)
           b1 == bytes[1]
           b2 == IF n >= 2 THEN bytes[2] ELSE 0
           b3 == IF n >= 3 THEN bytes[3] ELSE 0
       IN <<b1 \div 4,
            (b1 % 4) * 16 + (b2 \div 16),
            IF n >= 2 THEN (b2 % 16) * 4 + (b3 \div 64) ELSE Pad,
            IF n >= 3 THEN b3 % 64 ELSE Pad>>
          \o (IF n > 3 THEN Base64(SubSeq(bytes, 4, n)) ELSE <<>>)

btoa(str) ==
  IF \E i \in DOMAIN str : str[i] > 255
  THEN [ok |-> FALSE, value |-> <<>>]       \* InvalidCharacterError
  ELSE [ok |-> TRUE, value |-> Base64(str)]

\* `${options.user}:${options.password}`
Colon == 58
UserPass(o) == o.user \o <<Colon>> \o o.password

\* if(options.user && options.password): node request.ts:136-138 sets
\* opts.auth, browser request.ts:82-84 appends the Authorization header.
NoAuthorization == [scheme |-> "none", value |-> <<>>]

AuthorizationWithEither(tr, o) ==
  IF o.user # <<>> \/ o.password # <<>>
  THEN IF tr = "node"
       THEN [scheme |-> "auth", value |-> UserPass(o)]
       ELSE [scheme |-> "Basic", value |-> btoa(UserPass(o)).value]
  ELSE NoAuthorization

Authorization(tr, o) ==
  IF o.user # <<>> /\ o.password # <<>>
  THEN IF tr = "node"
       THEN [scheme |-> "auth", value |-> UserPass(o)]
       ELSE [scheme |-> "Basic", value |-> btoa(UserPass(o)).value]
  ELSE NoAuthorization

NoOpts == [url |-> NoUrl, hostname |-> "", port |-> "", path |-> <<>>,
           redirect |-> "none", agent |-> NoAgent,
           authorization |-> NoAuthorization]

TransportOptionsDefaultFollow(tr, o) ==
  IF tr = "node"
  THEN LET endpoint == parseUrl(o.url)
       IN [url |-> o.url,
           hostname |-> endpoint.hostname,
           port |-> IF endpoint.port # "" THEN endpoint.port
                    ELSE IF endpoint.protocol = "https:" THEN ":443" ELSE ":80",
           path |-> endpoint.path,
           redirect |-> "none",
           agent |-> o.agent,
           authorization |-> Authorization(tr, o)]
  ELSE [url |-> o.url, hostname |-> "", port |-> "", path |-> <<>>,
        redirect |-> IF o.followRedirects # 0 THEN "follow" ELSE "manual",
        agent |-> NoAgent,
        authorization |-> Authorization(tr, o)]

TransportOptions(tr, o) ==
  IF tr = "node"
  THEN LET endpoint == parseUrl(o.url)
       IN [url |-> o.url,
           hostname |-> endpoint.hostname,
           port |-> IF endpoint.port # "" THEN endpoint.port
                    ELSE IF endpoint.protocol = "https:" THEN ":443" ELSE ":80",
           path |-> endpoint.path,
           redirect |-> "none",
           agent |-> o.agent,
           authorization |-> Authorization(tr, o)]
  ELSE [url |-> o.url, hostname |-> "", port |-> "", path |-> <<>>,
        redirect |-> IF o.followRedirects # Absent /\ o.followRedirects # 0
                     THEN "follow" ELSE "manual",
        agent |-> NoAgent,
        authorization |-> Authorization(tr, o)]

\* browser request.ts:67-68 and :82-84: a native header set of the caller is
\* used as it is, and the Authorization header is appended to it.
AppendAuthorization(tr, o) ==
  IF tr = "fetch" /\ o.headers = "native" /\ o.user # <<>> /\ o.password # <<>>
  THEN [o EXCEPT !.headers = "native+authorization"]
  ELSE o

\* The body of withAsyncBody once the optional delay is over
\* (node request.ts:62-225, browser request.ts:34-106): the synchronous token
\* check, the subscriptions, and the creation of the transport request.
\* The re-check at request.ts:219 runs in the same synchronous block as the
\* check at :65, so it sees the same flag.
StartAttempt(tr, tok, h, n, out) ==
  IF IsCancellationRequested(tok)
  THEN [token |-> tok, opened |-> n, req |-> "none", phase |-> "done",
        outcome |-> Settle(out, Rejected("ERR_TOKEN_CANCELLED"))]
  ELSE [token |-> Subscribe(tok, AttemptListeners(tr, h)), opened |-> n + 1,
        req |-> "open", phase |-> "inflight", outcome |-> out]

\* browser request.ts:82-84: btoa throws on credentials that hold a code
\* point above 255; the body of withAsyncBody ends there, after the
\* subscription and before fetch is called, and the dispatch is rejected
\* with what was thrown.
BuildRequest(tr, o, r) ==
  IF /\ tr = "fetch"
     /\ r.req = "open"
     /\ o.user # <<>> /\ o.password # <<>>
     /\ ~btoa(UserPass(o)).ok
  THEN [r EXCEPT !.req = "none", !.opened = @ - 1, !.phase = "done",
                 !.outcome = Settle(@, Rejected("InvalidCharacterError"))]
  ELSE r

\* request(): node request.ts:54-60, browser request.ts:26-32.  With a delay
\* configured the body suspends before anything else happens.
BeginRequest(tr, tok, o, h, n, out) ==
  IF o.delay > 0
  THEN [token |-> tok, opened |-> n, req |-> "none", phase |-> "delay",
        outcome |-> out]
  ELSE StartAttempt(tr, tok, h, n, out)

\* The redirect test of handler, request.ts:141.
IsRedirectOffByOne(status, budget, location) ==
  /\ status >= 300 /\ status < 400
  /\ budget >= 0
  /\ location

IsRedirect(status, budget, location) ==
  /\ status >= 300 /\ status < 400
  /\ budget # 0 /\ budget > 0
  /\ location

\* assign({}, options, { url: location, followRedirects: followRedirects - 1 }),
\* request.ts:155-158 and :230-233: a fresh object, all other fields copied.
assignResettingDelay(o, location) ==
  [o EXCEPT !.url = location, !.followRedirects = @ - 1, !.delay = 0]

assign(o, location) ==
  [o EXCEPT !.url = location, !.followRedirects = @ - 1]


\* ------------------------------------------------------------------- state
OptionSets == [followRedirects : {Absent} \cup (0..MaxHops),
               delay : {0, 1},
               method : Methods,
               url : Urls,
               timeout : {Absent},
               headers : {"absent", "native"},
               user : {<<>>, <<97>>}, password : {<<112>>},
               payload : {"absent"}, strictSSL : {"absent"},
               agent : {NoAgent}]

InitHist(o) ==
  [input |-> o,                \* the options as the caller wrote them
   replies |-> 0,              \* replies handed to handler so far
   allRedirect |-> TRUE,       \* every reply so far was a 3xx with Location
   cancelledAt |-> "never",    \* where the chain was when the token fired
   openedAtCancel |-> 0,       \* `opened` at that moment
   waitingAtCancel |-> {},     \* accessor calls waiting for the body then
   from |-> NoUrl,             \* URL of the request last redirected
   location |-> NoUrl,         \* the Location it was redirected to
   proxy |-> NoProxy,          \* module state and environment at request()
   timedOut |-> FALSE,         \* the fetch timer fired on an open request
   lateAbort |-> FALSE]        \* the fetch timer aborted a delivered response

InitRest(os, pxs, hs, rps) ==
  /\ transport \in Transports
  /\ callerOptions \in os
  /\ proxy \in pxs
  /\ hdr \in hs
  /\ reply \in rps
  /\ ev = NoEv
  /\ pipe = NoPipe
  /\ timer = "none"
  /\ opts = NoOpts
  /\ options = callerOptions
  /\ hop = 0
  /\ phase = "start"
  /\ opened = 0
  /\ req = "none"
  /\ redirected = <<>>
  /\ token = [cancelled |-> FALSE, listeners |-> <<>>]
  /\ outcome = Pending
  /\ resp = NoResp
  /\ body = NoBody
  /\ calls = <<>>
  /\ hist = InitHist(callerOptions)

\* new EventEmitter() without options: the cap is 30 (events.ts:33).
InitFull(os, pxs, hs, rps) ==
  /\ InitRest(os, pxs, hs, rps)
  /\ em = NewEmitter(DefaultMaxListeners)
  /\ rd = NewReader(<<>>)

InitWith(os, pxs, hs) == InitFull(os, pxs, hs, {PlainReply})

Init == InitWith(OptionSets, {NoProxy}, {NoHdr})

\* ----------------------------------------------------------------- actions
\* The caller invokes request(options): node request.ts:28-60,
\* browser request.ts:12-32.
request ==
  /\ phase = "start"
  /\ LET o == FillDefaults(transport, callerOptions, proxy)
         r == BuildRequest(transport, o,
                           BeginRequest(transport, token, o, 1, opened, outcome))
         o1 == IF r.req = "open" THEN AppendAuthorization(transport, o) ELSE o
     IN /\ callerOptions' = o1
        /\ options' = o1
        /\ timer' = IF r.req = "open" /\ HasTimeout(transport, o)
                    THEN "armed" ELSE timer
        /\ opts' = IF r.req = "open" THEN TransportOptions(transport, o) ELSE opts
        /\ hop' = 1
        /\ redirected' = IF transport = "node" THEN <<FALSE>> ELSE <<>>
        /\ token' = r.token
        /\ opened' = r.opened
        /\ req' = r.req
        /\ phase' = r.phase
        /\ outcome' = r.outcome
  /\ hist' = [hist EXCEPT !.proxy = proxy]
  /\ UNCHANGED <<rd, em, transport, proxy, hdr, reply, ev, pipe, resp, body, calls>>

\* configure(_proxyUrl, _strictSSL), request.ts:20-23
configure ==
  /\ \E u \in ProxyUrls("configured"), ssl \in {"true", "false"} :
       proxy' = [proxy EXCEPT !.proxyUrl = u, !.strictSSL = ssl]
  /\ UNCHANGED <<rd, em, transport, callerOptions, options, hop, phase, opened, req,
                 redirected, token, outcome, resp, body, calls, timer, opts,
                 hdr, reply, ev, pipe, hist>>

\* Async.delay(options.delay) and the following tick are over
\* (node request.ts:55-60, browser request.ts:27-32).
DelayElapsed ==
  /\ phase = "delay"
  /\ LET r == BuildRequest(transport, options,
                           StartAttempt(transport, token, hop, opened, outcome))
         o1 == IF r.req = "open"
               THEN AppendAuthorization(transport, options) ELSE options
     IN /\ token' = r.token
        /\ opened' = r.opened
        /\ req' = r.req
        /\ phase' = r.phase
        /\ outcome' = r.outcome
        /\ timer' = IF r.req = "open" /\ HasTimeout(transport, options)
                    THEN "armed" ELSE timer
        /\ opts' = IF r.req = "open"
                   THEN TransportOptions(transport, options) ELSE opts
        \* hop 1 works on the caller's own object, a redirect hop on a copy
        /\ options' = o1
        /\ callerOptions' = IF hop = 1 THEN o1 ELSE callerOptions
  /\ UNCHANGED <<rd, em, transport, proxy, hdr, reply, ev, pipe, hop, redirected, resp, body, calls, hist>>

\* The reply callback of http.request / https.request, request.ts:140-195.
\* A redirect calls request() again at once (the nested call runs up to its
\* first suspension inside this callback); any other reply materializes the
\* NodeResponse, resolves, and subscribes the stream teardown.
handler ==
  /\ transport = "node"
  /\ phase = "inflight"
  /\ req = "open"
  /\ \E status \in Statuses, location \in Locations, json \in BOOLEAN :
       IF IsRedirect(status, options.followRedirects, location # NoUrl)
       THEN LET target == RedirectTarget(parseUrl(options.url), location)
                o == FillDefaults("node", assign(options, target), proxy)
                r == BeginRequest("node", token, o, hop + 1, opened, outcome)
            IN /\ redirected' = Append([redirected EXCEPT ![hop] = TRUE], FALSE)
               /\ timer' = IF r.req = "open" /\ HasTimeout("node", o)
                           THEN "armed" ELSE "none"
               /\ opts' = IF r.req = "open" THEN TransportOptions("node", o)
                          ELSE opts
               /\ options' = o
               /\ hop' = hop + 1
               /\ token' = r.token
               /\ opened' = r.opened
               /\ req' = r.req
               /\ phase' = r.phase
               /\ outcome' = r.outcome
               /\ hist' = [hist EXCEPT
                             !.replies = @ + 1,
                             !.allRedirect = @ /\ status >= 300 /\ status < 400
                                               /\ location # NoUrl,
                             !.from = options.url,
                             !.location = location]
               /\ UNCHANGED <<resp, body, ev, pipe>>
       ELSE LET nr == NewNodeResponse(status, redirected[hop],
                                      reply.contentLength)
                b0 == NodeInit(nr, options.method, json, reply.wire)
            IN /\ resp' = nr
               \* #parseHeaders emits inside the constructor, response.ts:53
               /\ ev' = [NoEv EXCEPT !.fired = 1]
               /\ pipe' = [NoPipe EXCEPT
                             !.stage = DecompressionStage(options.method, status,
                                                          reply.encoding)]
               /\ body' = IF IsCancellationRequested(token)
                          THEN DestroyReadable(b0) ELSE b0
               /\ outcome' = Settle(outcome, Resolved)
               /\ token' = Subscribe(token, <<Listener("destroyReadable", hop)>>)
               /\ req' = "replied"
               /\ phase' = "done"
               /\ hist' = [hist EXCEPT
                             !.replies = @ + 1,
                             !.allRedirect = @ /\ status >= 300 /\ status < 400
                                               /\ location # NoUrl]
               /\ UNCHANGED <<redirected, options, hop, opened, timer, opts>>
  /\ UNCHANGED <<rd, em, transport, proxy, hdr, reply, callerOptions, calls>>

\* fetch(u, reqInit).then(res => resolve(new BrowserResponse(res))),
\* browser request.ts:102-105.  Whether res.body is null and whether the
\* engine followed a redirect are the engine's to decide.
fetchResolved ==
  /\ transport = "fetch"
  /\ phase = "inflight"
  /\ req = "open"
  /\ \E status \in Statuses, redir \in BOOLEAN, nullBody \in BOOLEAN,
        json \in BOOLEAN :
       /\ resp' = NewBrowserResponse(status, redir, nullBody,
                                     reply.contentLength)
       /\ body' = BrowserBody(nullBody, json /\ ~nullBody)
  /\ outcome' = Settle(outcome, Resolved)
  /\ req' = "replied"
  /\ phase' = "done"
  /\ hist' = [hist EXCEPT !.replies = @ + 1]
  /\ UNCHANGED <<rd, em, transport, timer, opts, proxy, hdr, reply, ev, pipe, callerOptions, options, hop, opened, redirected,
                 token, calls>>

\* The transport fails before a reply: req.on('error', reject)
\* (node request.ts:203) or the rejection handler of fetch
\* (browser request.ts:105).  The error is passed on as it is.
transportError ==
  /\ phase = "inflight"
  /\ req = "open"
  /\ req' = "destroyed"
  /\ outcome' = Settle(outcome, Rejected("ERR_TRANSPORT"))
  /\ phase' = "done"
  /\ UNCHANGED <<rd, em, transport, timer, opts, proxy, hdr, reply, ev, pipe, callerOptions, options, hop, opened, redirected,
                 token, resp, body, calls, hist>>


\* ------------------------------------------------------------ cancellation
\* A call waiting on the native read primitive fails when the fetch is
\* aborted; formData() catches the failure (browser request.ts:264-271).
AbortRead(c, reason) ==
  IF c.phase # "waitEnd" THEN c
  ELSE IF c.name = "formData"
       THEN [c EXCEPT !.phase = "resolved", !.value = "none"]
       ELSE [c EXCEPT !.phase = "failed", !.kind = reason]

\* ac.abort(reason), the first statement of the listener subscribed at
\* node request.ts:69-72 / browser request.ts:41-44.  The signal belongs to
\* the transport request of attempt l.hop: an open request is destroyed and
\* fails with the abort error (node) or the abort reason (fetch); after the
\* reply the body stream of that request is torn down.
OnAbort(tr, cur, reason, l, st) ==
  IF l.hop # cur THEN st
  ELSE IF st.req = "open"
       THEN [st EXCEPT !.req = "destroyed",
                       !.outcome = Settle(@, Rejected(IF tr = "node"
                                                      THEN "ABORT_ERR"
                                                      ELSE reason))]
       ELSE IF st.req = "replied" /\ st.body.state \in {"flowing", "idle"}
            THEN [st EXCEPT !.body = DestroyReadable(@),
                            !.calls = IF tr = "fetch"
                                      THEN [i \in DOMAIN @ |-> AbortRead(@[i], reason)]
                                      ELSE @]
            ELSE st

\* req.destroy(new Exception(..., 'ERR_TOKEN_CANCELLED')), request.ts:223-225:
\* without effect on a request that is already destroyed or has replied.
OnDestroyReq(cur, l, st) ==
  IF l.hop = cur /\ st.req = "open"
  THEN [st EXCEPT !.req = "destroyed",
                  !.outcome = Settle(@, Rejected("ERR_TOKEN_CANCELLED"))]
  ELSE st

\* readable.destroy(), request.ts:191-193
OnDestroyReadable(st) == [st EXCEPT !.body = DestroyReadable(@)]

RunListener(tr, cur, reason, l, st) ==
  CASE l.kind = "abort" -> OnAbort(tr, cur, reason, l, st)
    [] l.kind = "destroyReq" -> OnDestroyReq(cur, l, st)
    [] l.kind = "destroyReadable" -> OnDestroyReadable(st)

\* The token calls its listeners in subscription order.  The "abort"
\* listeners end with `throw new Exception(...)`; whether the token library
\* swallows a listener's exception or lets it end the notification is not
\* this repository's code, so both are possible (propagate).
RECURSIVE RunListeners(_, _, _, _, _, _)
RunListeners(tr, cur, reason, propagate, ls, st) ==
  IF ls = <<>> THEN st
  ELSE LET st1 == RunListener(tr, cur, reason, Head(ls), st)
       IN IF Head(ls).kind = "abort" /\ propagate
          THEN st1
          ELSE RunListeners(tr, cur, reason, propagate, Tail(ls), st1)

\* Where the chain is when the token is signalled.
CancelPoint ==
  CASE phase = "start" -> "start"
    [] phase = "delay" -> "delay"
    [] phase = "inflight" -> "inflight"
    [] phase = "done" /\ resp.impl = "none" -> "settled"
    [] phase = "done" /\ resp.impl # "none" /\ body.state = "ended" -> "afterEnd"
    [] OTHER -> "terminal"

\* The owner of the token signals it.
cancel ==
  /\ ~token.cancelled
  /\ \E propagate \in BOOLEAN, reason \in AbortReasons :
       LET st == RunListeners(transport, hop, reason, propagate, token.listeners,
                              [req |-> req, outcome |-> outcome,
                               body |-> body, calls |-> calls])
       IN /\ req' = st.req
          /\ outcome' = st.outcome
          /\ body' = st.body
          /\ calls' = st.calls
          /\ phase' = IF phase = "inflight" /\ st.req # "open" THEN "done" ELSE phase
  /\ token' = [token EXCEPT !.cancelled = TRUE]
  /\ hist' = [hist EXCEPT
                !.cancelledAt = CancelPoint,
                !.openedAtCancel = opened,
                !.waitingAtCancel = {i \in DOMAIN calls : calls[i].phase = "waitEnd"}]
  /\ UNCHANGED <<rd, em, transport, timer, opts, proxy, hdr, reply, ev, pipe, callerOptions, options, hop, opened, redirected, resp>>


\* ----------------------------------------------------------------- timeout
\* req.setTimeout(options.timeout), request.ts:132 and :205-207: the socket
\* has been idle for the timeout and the request emits 'timeout'.  Nothing
\* listens to that event, so the request stays as it is.
OnSocketTimeout ==
  /\ transport = "node"
  /\ timer = "armed"
  /\ req = "open"
  /\ timer' = "fired"
  /\ UNCHANGED <<rd, em, transport, callerOptions, options, hop, phase, opened, req,
                 redirected, token, outcome, resp, body, calls, opts, proxy,
                 hdr, reply, ev, pipe, hist>>

\* The setTimeout callback of browser request.ts:92-95: ac.abort(), then
\* reject(ERR_TIMEOUT) of the timer's promise.  Promise.race settles with
\* whichever of the two rejections is delivered first: the abort error when
\* the engine rejects the fetch promise within abort() (as the Fetch
\* standard has it), the timeout error when it rejects later (winner).
\* The timer is never cleared: it also fires after fetch has settled, and
\* then aborts the signal the delivered response reads its body through.
OnTimeout ==
  /\ transport = "fetch"
  /\ timer = "armed"
  /\ timer' = "fired"
  /\ \E winner \in {"ABORT_ERR", "ERR_TIMEOUT"} :
       LET st == OnAbort("fetch", hop, "ABORT_ERR", Listener("abort", hop),
                         [req |-> req,
                          outcome |-> IF req = "open"
                                      THEN Settle(outcome, Rejected(winner))
                                      ELSE outcome,
                          body |-> body, calls |-> calls])
       IN /\ req' = st.req
          /\ outcome' = st.outcome
          /\ body' = st.body
          /\ calls' = st.calls
          /\ phase' = IF req = "open" THEN "done" ELSE phase
  /\ hist' = [hist EXCEPT !.timedOut = @ \/ req = "open",
                          !.lateAbort = @ \/ req = "replied"]
  /\ UNCHANGED <<rd, em, transport, callerOptions, options, hop, opened, redirected,
                 token, resp, opts, proxy, hdr, reply, ev, pipe>>

\* ------------------------------------------------------ header normalizer
\* parseHeaders and headersEntries are applied to the inputs.
NormalizeHeaders ==
  /\ hdr.step = 0
  /\ hdr.a.form # "none"
  /\ hdr' = [hdr EXCEPT !.step = 1,
                        !.pa = parseHeaders(hdr.a),
                        !.pb = parseHeaders(hdr.b),
                        !.ea = headersEntries(hdr.a),
                        !.eb = headersEntries(hdr.b)]
  /\ UNCHANGED <<rd, em, transport, callerOptions, options, hop, phase, opened, req,
                 redirected, token, outcome, resp, body, calls, timer, opts,
                 proxy, hist, reply, ev, pipe>>

\* They are applied to their own output: headersEntries to the pair list it
\* returned, parseHeaders to the header set it returned.
NormalizeAgain ==
  /\ hdr.step = 1
  /\ hdr' = [hdr EXCEPT !.step = 2,
                        !.pa2 = parseHeaders([form |-> "native", items |-> hdr.pa]),
                        !.ea2 = headersEntries([form |-> "pairs", items |-> hdr.ea])]
  /\ UNCHANGED <<rd, em, transport, callerOptions, options, hop, phase, opened, req,
                 redirected, token, outcome, resp, body, calls, timer, opts,
                 proxy, hist, reply, ev, pipe>>

\* ----------------------------------------------------------- body delivery
\* The i-th chunk the transport delivers: one byte, numbered.
Chunk(i) == <<i>>

\* The complete body of a reply that delivers n chunks.
RECURSIVE Payload(_)
Payload(n) == IF n = 0 THEN <<>> ELSE Payload(n - 1) \o Chunk(n)

\* BufferWriter.buffer: Buffer.concat(this.#buffers), events.ts:299-301
RECURSIVE Concat(_)
Concat(bs) == IF bs = <<>> THEN <<>> ELSE Head(bs) \o Concat(Tail(bs))

\* #consumeStream's result, response.ts:331-335: the bytes buffered so far.
ConsumedBuffer(b) == Concat(b.writer)

\* A continuation of an accessor that was waiting for the end of the body
\* is queued: the node accessors take the buffer as #consumeStream resumes,
\* the browser accessors get what the native read primitive collected.
WakeCall(c, b) ==
  IF c.phase = "waitEnd"
  THEN [c EXCEPT !.phase = "ready", !.data = ConsumedBuffer(b)]
  ELSE c

\* this.#raw.on('data', ...), response.ts:266-275: the chunk is appended to
\* the BufferWriter.  (The fetch engine buffers its body the same way.)
ProgressEventOfChunk(writer, total) ==
  [loaded |-> Len(writer[Len(writer)]), total |-> total,
   lengthComputable |-> TRUE]

ProgressEvent(writer, total) ==
  [loaded |-> Len(Concat(writer)), total |-> total, lengthComputable |-> TRUE]

\* The chunk the response sees for the i-th chunk of the transport stream:
\* what the decompression stage makes of it (WrappedResponse pushes on what
\* the stage emits, request.ts:279); the fetch engine does its own decoding.
ReceivedFromTransport(i) ==
  IF resp.impl = "node" THEN reply.wire[i] ELSE Chunk(i)

Received(i) ==
  IF resp.impl = "node" THEN StageOutput(pipe.stage, reply.wire[i]) ELSE Chunk(i)

OnData ==
  /\ body.state = "flowing"
  /\ body.delivered < body.total
  /\ LET out == Received(body.delivered + 1)
         \* a stage that has nothing to hand on emits no 'data'
         w == IF out = <<>> THEN body.writer ELSE Append(body.writer, out)
     IN /\ body' = [body EXCEPT !.delivered = @ + 1, !.writer = w]
        /\ ev' = IF resp.impl = "node" /\ out # <<>>
                 THEN Emit([ev EXCEPT !.progress =
                                        Append(@, ProgressEvent(w, resp.totalLength))],
                           "progress")
                 ELSE ev
  /\ UNCHANGED <<rd, em, transport, timer, opts, proxy, hdr, reply, pipe, callerOptions, options, hop, phase, opened, req,
                 redirected, token, outcome, resp, calls, hist>>

\* this.#raw.on('end', ...), response.ts:261-264, followed by the
\* once('end') listeners of the waiting #consumeStream calls
\* (response.ts:326-328), in subscription order.
OnEnd ==
  /\ body.state = "flowing"
  /\ body.delivered = body.total
  /\ LET b == [body EXCEPT !.state = "ended",
                           !.processed = IF resp.impl = "node" THEN TRUE ELSE @]
     IN /\ body' = b
        /\ calls' = [i \in DOMAIN calls |-> WakeCall(calls[i], b)]
  /\ UNCHANGED <<rd, em, transport, timer, opts, proxy, hdr, reply, ev, pipe, callerOptions, options, hop, phase, opened, req,
                 redirected, token, outcome, resp, hist>>

\* ---------------------------------------------------------- body accessors
NewCall(name) ==
  [name |-> name, phase |-> "ready", value |-> "none", data |-> <<>>,
   kind |-> "none",
   \* history: when this call was made, the body was still being buffered /
   \* some earlier call had settled / the token had fired after the end of
   \* the body
   buffering |-> body.state = "flowing",
   afterSettled |-> \E i \in DOMAIN calls : calls[i].phase \in {"resolved", "failed"},
   afterCancel |-> token.cancelled /\ hist.cancelledAt = "afterEnd",
   \* dispose() had already been called on the response
   afterDispose |-> ev.disposed,
   \* an earlier json() had already failed on the text of the body
   afterParseError |-> \E i \in DOMAIN calls :
                         /\ calls[i].name = "json"
                         /\ calls[i].phase = "failed"
                         /\ calls[i].kind = "SyntaxError"]

Fail(c, k) == [c EXCEPT !.phase = "failed", !.kind = k]
None(c) == [c EXCEPT !.phase = "resolved", !.value = "none"]
Some(c, d) == [c EXCEPT !.phase = "resolved", !.value = "some", !.data = d]

\* #ensureNotBodyUsed, response.ts:338-342 and browser request.ts:388-392
EnsureNotBodyUsed(r) == ~r.bodyUsed

\* The synchronous part of a NodeResponse accessor, up to its first await
\* (response.ts:85-202).  Yields the call record, the response and the body.
NodeCall(c, r, b) ==
  IF ~EnsureNotBodyUsed(r)
  THEN [call |-> Fail(c, "ERR_RESOURCE_ALREADY_CONSUMED"), resp |-> r, body |-> b]
  ELSE IF c.name = "formData"
       \* response.ts:179-182: resolves to the absent value, #bodyUsed untouched
       THEN [call |-> None(c), resp |-> r, body |-> b]
  ELSE IF c.name = "readableSource"
       \* response.ts:184-186: awaits #consumeStream before looking at #hasNoBody
       THEN [call |-> IF b.processed THEN c ELSE [c EXCEPT !.phase = "waitEnd"],
             resp |-> r, body |-> b]
  ELSE IF NodeHasNoBody(r)
       THEN [call |-> None(c), resp |-> [r EXCEPT !.bodyUsed = TRUE], body |-> b]
  ELSE IF b.processed
       \* #consumeStream returns the buffer without waiting, response.ts:325
       THEN [call |-> [c EXCEPT !.data = ConsumedBuffer(b)], resp |-> r, body |-> b]
       \* this.#raw.once('end', resolve), response.ts:326-328
       ELSE [call |-> [c EXCEPT !.phase = "waitEnd"], resp |-> r, body |-> b]

\* The synchronous part of a BrowserResponse accessor
\* (browser request.ts:173-277).  The native read primitive (raw.text() and
\* the like) rejects when the native body was read before; otherwise it
\* marks the body as read and collects it to its end.
BrowserCall(c, r, b) ==
  IF ~EnsureNotBodyUsed(r)
  THEN [call |-> Fail(c, "ERR_RESOURCE_ALREADY_CONSUMED"), resp |-> r, body |-> b]
  ELSE IF c.name = "readableSource"
       \* browser request.ts:173-178
       THEN [call |-> IF r.nullBody THEN None(c) ELSE Some(c, <<>>),
             resp |-> [r EXCEPT !.bodyUsed = TRUE], body |-> b]
  ELSE IF c.name = "buffer"
       \* browser request.ts:274-277
       THEN [call |-> None(c), resp |-> r, body |-> b]
  ELSE IF r.nullBody
       THEN [call |-> None(c), resp |-> [r EXCEPT !.bodyUsed = TRUE], body |-> b]
  ELSE IF b.disturbed \/ b.state = "destroyed"
       THEN [call |-> IF c.name = "formData" THEN None(c) ELSE Fail(c, "TypeError"),
             resp |-> r, body |-> b]
  ELSE [call |-> IF b.state = "ended"
                 THEN [c EXCEPT !.data = ConsumedBuffer(b)]
                 ELSE [c EXCEPT !.phase = "waitEnd"],
        resp |-> r, body |-> [b EXCEPT !.disturbed = TRUE]]

\* The caller invokes one body accessor on the response it received.
CallAccessor ==
  /\ resp.impl # "none"
  /\ Len(calls) < MaxCalls
  /\ \E name \in Accessors :
       LET c == NewCall(name)
           r == IF resp.impl = "node" THEN NodeCall(c, resp, body)
                                      ELSE BrowserCall(c, resp, body)
       IN /\ calls' = Append(calls, r.call)
          /\ resp' = r.resp
          /\ body' = r.body
  /\ UNCHANGED <<rd, em, transport, timer, opts, proxy, hdr, reply, ev, pipe, callerOptions, options, hop, phase, opened, req,
                 redirected, token, outcome, hist>>

\* The part of a NodeResponse accessor after `await this.#consumeStream()`.
\* json() throws what jsonSafeParser returned as left (response.ts:110-114);
\* readableSource() takes the chunks out of the writer with return()
\* (response.ts:188-201, events.ts:324-329).
NodeResumeMarkingOnSuccess(c, r, b) ==
  IF c.name = "readableSource"
  THEN IF NodeHasNoBody(r)
       THEN [call |-> None(c), resp |-> [r EXCEPT !.bodyUsed = TRUE], body |-> b]
       ELSE [call |-> Some(c, Concat(b.writer)),
             resp |-> [r EXCEPT !.bodyUsed = TRUE],
             body |-> [b EXCEPT !.writer = <<>>]]
  ELSE IF c.name = "json" /\ ~b.isJson
       THEN [call |-> Fail(c, "SyntaxError"), resp |-> r, body |-> b]
       ELSE [call |-> Some(c, c.data),
             resp |-> [r EXCEPT !.bodyUsed = TRUE], body |-> b]

NodeResume(c, r, b) ==
  IF c.name = "readableSource"
  THEN IF NodeHasNoBody(r)
       THEN [call |-> None(c), resp |-> [r EXCEPT !.bodyUsed = TRUE], body |-> b]
       ELSE [call |-> Some(c, Concat(b.writer)),
             resp |-> [r EXCEPT !.bodyUsed = TRUE],
             body |-> [b EXCEPT !.writer = <<>>]]
  ELSE IF c.name = "json" /\ ~b.isJson
       THEN [call |-> Fail(c, "SyntaxError"),
             resp |-> [r EXCEPT !.bodyUsed = TRUE], body |-> b]
       ELSE [call |-> Some(c, c.data),
             resp |-> [r EXCEPT !.bodyUsed = TRUE], body |-> b]

\* The part of a BrowserResponse accessor after `await this.#raw.text()`
\* and the like.  formData() resolves to the absent value, without setting
\* #bodyUsed, when the native parse fails (formOk false).
BrowserResume(c, r, b, formOk) ==
  IF c.name = "formData" /\ ~formOk
  THEN [call |-> None(c), resp |-> r, body |-> b]
  ELSE IF c.name = "json" /\ ~b.isJson
       THEN [call |-> Fail(c, "SyntaxError"),
             resp |-> [r EXCEPT !.bodyUsed = TRUE], body |-> b]
       ELSE [call |-> Some(c, c.data),
             resp |-> [r EXCEPT !.bodyUsed = TRUE], body |-> b]

\* The queued continuations run in the order they were queued, which is
\* the order of the calls.
NextReady == CHOOSE i \in DOMAIN calls :
               /\ calls[i].phase = "ready"
               /\ \A j \in DOMAIN calls : calls[j].phase = "ready" => i <= j

Resume ==
  /\ \E i \in DOMAIN calls : calls[i].phase = "ready"
  /\ \E formOk \in BOOLEAN :
       LET i == NextReady
           r == IF resp.impl = "node" THEN NodeResume(calls[i], resp, body)
                ELSE BrowserResume(calls[i], resp, body, formOk)
       IN /\ calls' = [calls EXCEPT ![i] = r.call]
          /\ resp' = r.resp
          /\ body' = r.body
  /\ UNCHANGED <<rd, em, transport, timer, opts, proxy, hdr, reply, ev, pipe, callerOptions, options, hop, phase, opened, req,
                 redirected, token, outcome, hist>>

\* ------------------------------------------------- events and disposal
\* The caller has just received the response: nothing has been called on
\* it and no stream event has been delivered.
AtReceipt ==
  /\ calls = <<>>
  /\ body.delivered = 0
  /\ body.state \in {"flowing", "idle"}
  /\ ev.subs = 0
  /\ ev.disposals = 0

\* resp.on(event, l) / resp.once(event, l): response.ts:208-236,
\* browser request.ts:283-341.  On a disposed emitter addListener throws
\* (events.ts:46), in the browser after the emission was scheduled.
on ==
  /\ resp.impl # "none"
  /\ ev.subs < MaxSubs
  /\ \E event \in Events, l \in Listeners, once \in BOOLEAN :
       LET e1 == IF resp.impl = "browser"
                 THEN ScheduleHeadersReceived(ev, event) ELSE ev
           e2 == IF e1.disposed THEN e1 ELSE AddListener(e1, event, l, once)
       IN ev' = [e2 EXCEPT
                   !.subs = @ + 1,
                   !.asked = @ \/ event = "headers-received",
                   !.early = IF event = "headers-received" /\ AtReceipt
                             THEN @ \cup {l} ELSE @]
  /\ UNCHANGED <<rd, em, transport, callerOptions, options, hop, phase, opened, req,
                 redirected, token, outcome, resp, body, calls, timer, opts,
                 proxy, hdr, hist, reply, pipe>>

\* resp.off(event, l): response.ts:238-243, browser request.ts:343-348
off ==
  /\ resp.impl # "none"
  /\ ev.subs < MaxSubs
  /\ \E event \in Events, l \in Listeners :
       ev' = [(IF ev.disposed THEN ev ELSE RemoveListener(ev, event, l))
                EXCEPT !.subs = @ + 1]
  /\ UNCHANGED <<rd, em, transport, callerOptions, options, hop, phase, opened, req,
                 redirected, token, outcome, resp, body, calls, timer, opts,
                 proxy, hdr, hist, reply, pipe>>

\* The deferred emission of browser request.ts:290-299 runs: Async.delay()
\* and the next tick are over.  On a disposed emitter emit throws
\* (events.ts:158) and nobody is told.
HeadersTick ==
  /\ ev.scheduled > 0
  /\ ev' = IF ev.disposed
           THEN [ev EXCEPT !.scheduled = @ - 1]
           ELSE Emit([ev EXCEPT !.scheduled = @ - 1], "headers-received")
  /\ UNCHANGED <<rd, em, transport, callerOptions, options, hop, phase, opened, req,
                 redirected, token, outcome, resp, body, calls, timer, opts,
                 proxy, hdr, hist, reply, pipe>>

\* this.#raw.body?.cancel(), browser request.ts:352: a body that is null
\* stays away; a body an accessor has read from is locked, cancel() returns
\* a rejected promise and the stream goes on; otherwise the stream is
\* cancelled.
CancelBody(r, b, pp) ==
  IF r.nullBody \/ b.disturbed
  THEN [body |-> b, pipe |-> pp]
  ELSE [body |-> [DestroyReadable(b) EXCEPT !.disturbed = TRUE],
        pipe |-> [pp EXCEPT !.released = TRUE]]

\* resp.dispose(): EventEmitter.dispose (events.ts:260-269) and then
\* this.#raw.destroy() (response.ts:245-248), where #raw is the
\* WrappedResponse of request.ts:183: its destroy() ends the wrapper, not the
\* transport stream (or the stage) it copies from; or CancelBody
\* (browser request.ts:350-353).
dispose ==
  /\ resp.impl # "none"
  /\ ev.disposals < MaxDisposals
  /\ ev' = [ev EXCEPT !.disposals = @ + 1,
                      !.disposed = TRUE,
                      !.listeners = NoEv.listeners]
  /\ LET r == IF resp.impl = "node"
              THEN [body |-> DestroyReadable(body), pipe |-> pipe]
              ELSE CancelBody(resp, body, pipe)
     IN /\ body' = r.body
        /\ pipe' = r.pipe
  /\ UNCHANGED <<rd, em, transport, callerOptions, options, hop, phase, opened, req,
                 redirected, token, outcome, resp, calls, timer, opts,
                 proxy, hdr, hist, reply>>

\* The decompression stage (or the transport stream) emits 'error':
\* WrappedResponse re-emits it (request.ts:280), the listener of #init
\* rejects the promise #init returned, which the constructor dropped
\* (response.ts:54, :260).  The stream is over without an 'end'.
OnStreamError ==
  /\ resp.impl = "node"
  /\ body.state = "flowing"
  /\ body' = [body EXCEPT !.state = "destroyed"]
  /\ pipe' = [pipe EXCEPT !.errored = TRUE]
  /\ UNCHANGED <<rd, em, transport, callerOptions, options, hop, phase, opened, req,
                 redirected, token, outcome, resp, calls, timer, opts,
                 proxy, hdr, hist, reply, ev>>

\* ------------------------------------------------- the emitter on its own
\* Calls on an EventEmitter constructed with { maxListeners }; everything
\* else stands still.
Returned(op, value) == [op |-> op, result |-> IF value THEN "true" ELSE "false"]

Called(e) == [e EXCEPT !.ops = @ + 1]

addListener ==
  /\ em.ops < MaxEmitterOps
  /\ \E event \in EmEvents, cb \in Callbacks, once \in BOOLEAN :
       em' = Called(AddListenerTo(em, event, cb, once))
  /\ UNCHANGED <<rd, transport, callerOptions, options, hop, phase, opened, req,
                 redirected, token, outcome, resp, body, calls, timer, opts,
                 proxy, hdr, hist, reply, ev, pipe>>

disposeListener ==
  /\ em.ops < MaxEmitterOps
  /\ \E k \in DOMAIN em.handles :
       /\ ~em.handles[k].disposed
       /\ em' = Called([DisposeHandle(em, k) EXCEPT !.last = NoLast])
  /\ UNCHANGED <<rd, transport, callerOptions, options, hop, phase, opened, req,
                 redirected, token, outcome, resp, body, calls, timer, opts,
                 proxy, hdr, hist, reply, ev, pipe>>

removeListener ==
  /\ em.ops < MaxEmitterOps
  /\ \E event \in EmEvents, cb \in Callbacks :
       em' = Called([RemoveListenerFrom(em, event, cb) EXCEPT
                       !.last = Returned("removeListener",
                                         Registered(em, event, cb))])
  /\ UNCHANGED <<rd, transport, callerOptions, options, hop, phase, opened, req,
                 redirected, token, outcome, resp, body, calls, timer, opts,
                 proxy, hdr, hist, reply, ev, pipe>>

removeManyListeners ==
  /\ em.ops < MaxEmitterOps
  /\ \E event \in EmEvents :
       em' = Called([RemoveManyListenersOf(em, event) EXCEPT
                       !.last = Returned("removeManyListeners",
                                         em.map[event] # 0)])
  /\ UNCHANGED <<rd, transport, callerOptions, options, hop, phase, opened, req,
                 redirected, token, outcome, resp, body, calls, timer, opts,
                 proxy, hdr, hist, reply, ev, pipe>>

emit ==
  /\ em.ops < MaxEmitterOps
  /\ \E event \in EmEvents, r \in Callbacks \cup {"nobody"} :
       em' = Called([EmitCall(em, event, r, 0) EXCEPT
                       !.last = Returned("emit", em.map[event] # 0)])
  /\ UNCHANGED <<rd, transport, callerOptions, options, hop, phase, opened, req,
                 redirected, token, outcome, resp, body, calls, timer, opts,
                 proxy, hdr, hist, reply, ev, pipe>>

fire ==
  /\ em.ops < MaxEmitterOps
  /\ \E event \in EmEvents, r \in Callbacks \cup {"nobody"} :
       em' = Called([EmitCall(em, event, r, 0) EXCEPT
                       !.last = Returned("fire", em.map[event] # 0)])
  /\ UNCHANGED <<rd, transport, callerOptions, options, hop, phase, opened, req,
                 redirected, token, outcome, resp, body, calls, timer, opts,
                 proxy, hdr, hist, reply, ev, pipe>>

\* -------------------------------------------------- the reader on its own
\* read(bytes) and read() on a BufferReader; everything else stands still.
ReadCounts == -1..(MaxBuffer + 1)

read ==
  /\ rd.reads < MaxReads
  /\ \E given \in BOOLEAN, bytes \in ReadCounts :
       rd' = [Read(rd, given, bytes) EXCEPT !.reads = @ + 1,
                                            !.wasConsumed = ~readable(rd)]
  /\ UNCHANGED <<em, transport, callerOptions, options, hop, phase, opened,
                 req, redirected, token, outcome, resp, body, calls, timer,
                 opts, proxy, hdr, hist, reply, ev, pipe>>

\* ---------------------------------------------------------- specifications
\* The dispatch chain: every configuration, up to the terminal response.
Next ==
  \/ request
  \/ DelayElapsed
  \/ handler
  \/ fetchResolved
  \/ transportError
  \/ cancel

Spec == Init /\ [][Next]_vars

\* One dispatch without delay and the life of its response: body delivery
\* and the accessor calls of the caller.
RespOptionSets == [followRedirects : {0, 1}, delay : {0}, method : Methods,
                   url : {<<"https:", "//", "host", "/a", "/b">>},
                   timeout : {Absent}, headers : {"absent"}, user : {<<>>}, password : {<<>>},
                   payload : {"absent"}, strictSSL : {"absent"}, agent : {NoAgent}]

RespInit == InitWith(RespOptionSets, {NoProxy}, {NoHdr})

RespNext ==
  \/ request
  \/ handler
  \/ fetchResolved
  \/ cancel
  \/ OnData
  \/ OnEnd
  \/ CallAccessor
  \/ Resume

RespSpec == RespInit /\ [][RespNext]_vars


\* The timer of the pre-send delay fires; body delivery and the queued
\* continuations of the accessors proceed.  The caller's own steps
\* (request, an accessor call, signalling the token) and the arrival of a
\* reply are not forced.
FairSpec == Spec /\ WF_vars(DelayElapsed)

\* Agent selection: every combination of explicit agent, configured proxy
\* URL and environment, for an http and an https destination.
ProxyOptionSets == [followRedirects : {Absent}, delay : {0}, method : {"GET"},
                    url : Urls,
                    timeout : {Absent}, headers : {"absent"}, user : {<<>>}, password : {<<>>},
                    payload : {"absent"}, strictSSL : {"absent"}, agent : {NoAgent, ExplicitAgent}]

ProxyEnvs == [HTTP_PROXY : ProxyUrls("HTTP_PROXY"),
              http_proxy : ProxyUrls("http_proxy"),
              HTTPS_PROXY : ProxyUrls("HTTPS_PROXY"),
              https_proxy : ProxyUrls("https_proxy")]

ProxyInit ==
  InitWith(ProxyOptionSets,
           [proxyUrl : {NoUrl}, strictSSL : {"true"}, env : ProxyEnvs],
           {NoHdr})

ProxyNext == configure \/ request

ProxySpec == ProxyInit /\ [][ProxyNext]_vars

\* The header normalizer on one input, and on two inputs side by side.
IdleOptionSets == [followRedirects : {Absent}, delay : {0}, method : {"GET"},
                   url : {<<"https:", "//", "host", "/a", "/b">>},
                   timeout : {Absent}, headers : {"absent"}, user : {<<>>}, password : {<<>>},
                   payload : {"absent"}, strictSSL : {"absent"}, agent : {NoAgent}]

HeaderInit ==
  InitWith(IdleOptionSets, {NoProxy},
           {[NoHdr EXCEPT !.a = a] : a \in HeaderInputs})

HeaderNext == NormalizeHeaders \/ NormalizeAgain

HeaderSpec == HeaderInit /\ [][HeaderNext]_vars

HeaderPairInit ==
  InitWith(IdleOptionSets, {NoProxy},
           {[NoHdr EXCEPT !.a = a, !.b = b] : a \in HeaderInputs, b \in PeerInputs})

HeaderPairNext == NormalizeHeaders

HeaderPairSpec == HeaderPairInit /\ [][HeaderPairNext]_vars

\* Dispatches with and without a timeout, up to the end of the body.
TimeoutOptionSets == [followRedirects : {0, 1}, delay : {0, 1}, method : {"GET"},
                      url : {<<"https:", "//", "host", "/a", "/b">>},
                      timeout : {Absent, 0, 1}, headers : {"absent"},
                      user : {<<>>}, password : {<<>>}, payload : {"absent"}, strictSSL : {"absent"}, agent : {NoAgent}]

TimeoutInit == InitWith(TimeoutOptionSets, {NoProxy}, {NoHdr})

TimeoutNext ==
  \/ request
  \/ DelayElapsed
  \/ handler
  \/ fetchResolved
  \/ transportError
  \/ cancel
  \/ OnSocketTimeout
  \/ OnTimeout
  \/ OnData
  \/ OnEnd

TimeoutSpec == TimeoutInit /\ [][TimeoutNext]_vars

\* The timers fire and the pre-send delay ends.
TimeoutFairSpec ==
  TimeoutSpec /\ WF_vars(DelayElapsed) /\ WF_vars(OnSocketTimeout)
              /\ WF_vars(OnTimeout)

RespFairSpec ==
  RespSpec /\ WF_vars(OnData) /\ WF_vars(OnEnd) /\ WF_vars(Resume)

\* One GET without delay and the life of its response with its listeners:
\* subscriptions, body delivery, accessor calls, disposal.
EventOptionSets == [followRedirects : {0}, delay : {0}, method : {"GET"},
                    url : {<<"https:", "//", "host", "/a", "/b">>},
                    timeout : {Absent}, headers : {"absent"}, user : {<<>>}, password : {<<>>},
                    payload : {"absent"}, strictSSL : {"absent"}, agent : {NoAgent}]

\* Replies with and without a content-length whose body arrives in chunks
\* of any sizes.
EventPayload == [i \in 1..(MaxChunks + 1) |-> i]

EventReplies ==
  {ReplyOf(n, "none", EventPayload, w) :
     n \in {Absent, NotANumber, MaxChunks + 1},
     w \in Chunkings(EventPayload, MaxChunks)}

EventInit == InitFull(EventOptionSets, {NoProxy}, {NoHdr}, EventReplies)

EventNext ==
  \/ request
  \/ handler
  \/ fetchResolved
  \/ OnData
  \/ OnEnd
  \/ on
  \/ off
  \/ HeadersTick
  \/ dispose

EventSpec == EventInit /\ [][EventNext]_vars

\* The same with the accessor calls of the caller instead of off and
\* dispose.
ListenNext ==
  \/ request
  \/ handler
  \/ fetchResolved
  \/ OnData
  \/ OnEnd
  \/ CallAccessor
  \/ Resume
  \/ on
  \/ HeadersTick

ListenInit == InitFull(EventOptionSets, {NoProxy}, {NoHdr}, {PlainReply})

ListenSpec == ListenInit /\ [][ListenNext]_vars

\* Replies in every content-encoding to GET and HEAD, and their delivery.
StageOptionSets == [followRedirects : {0}, delay : {0}, method : Methods,
                    url : {<<"https:", "//", "host", "/a", "/b">>},
                    timeout : {Absent}, headers : {"absent"}, user : {<<>>}, password : {<<>>},
                    payload : {"absent"}, strictSSL : {"absent"}, agent : {NoAgent}]

StageReplies ==
  {ReplyOf(Absent, e, <<1, 2>>, <<Encode(e, <<1, 2>>)>>) : e \in Encodings}

StageInit == InitFull(StageOptionSets, {NoProxy}, {NoHdr}, StageReplies)

StageNext ==
  \/ request
  \/ handler
  \/ fetchResolved
  \/ OnData
  \/ OnEnd

StageSpec == StageInit /\ [][StageNext]_vars

\* Socket-transport replies that carry gzip(P) for payloads P of every
\* length (their bytes numbered, so that a lost, doubled or misplaced byte
\* shows), in every chunking, and the accessor calls on them.
Payloads == {[i \in 1..k |-> i] : k \in 0..MaxPayload}

CodecReplies ==
  UNION {{ReplyOf(Absent, "gzip", P, w) : w \in Chunkings(gzip(P), MaxChunks)} :
         P \in Payloads}

CodecInit ==
  /\ InitFull(EventOptionSets, {NoProxy}, {NoHdr}, CodecReplies)
  /\ transport = "node"

CodecNext ==
  \/ request
  \/ handler
  \/ OnData
  \/ OnEnd
  \/ CallAccessor
  \/ Resume

CodecSpec == CodecInit /\ [][CodecNext]_vars

\* The response of one GET to its end: body delivery, a stream error, the
\* accessor calls and dispose calls of the caller.
LifeNext ==
  \/ request
  \/ handler
  \/ fetchResolved
  \/ OnData
  \/ OnEnd
  \/ OnStreamError
  \/ CallAccessor
  \/ Resume
  \/ dispose

LifeSpec == ListenInit /\ [][LifeNext]_vars

\* Stream events are delivered and queued continuations run.
LifeFairSpec ==
  LifeSpec /\ WF_vars(OnData) /\ WF_vars(OnEnd) /\ WF_vars(Resume)

\* Credentials: request() with every combination of a user name and a
\* password, empty ones included, in ASCII, in Latin-1 and beyond it.
CredentialChars == {97, 233, 8364}
CredentialStrings == UNION {[1..k -> CredentialChars] : k \in 0..MaxCredential}

AuthOptionSets == [followRedirects : {0}, delay : {0, 1}, method : {"GET"},
                   url : {<<"https:", "//", "host", "/a", "/b">>},
                   timeout : {Absent}, headers : {"absent", "native"},
                   user : CredentialStrings, password : CredentialStrings,
                   payload : {"absent"}, strictSSL : {"absent"}, agent : {NoAgent}]

AuthInit == InitWith(AuthOptionSets, {NoProxy}, {NoHdr})

AuthNext ==
  \/ request
  \/ DelayElapsed
  \/ handler
  \/ fetchResolved

AuthSpec == AuthInit /\ [][AuthNext]_vars

\* The emitter constructed with each cap, then any calls on it.
EmitterInit ==
  /\ InitRest(IdleOptionSets, {NoProxy}, {NoHdr}, {PlainReply})
  /\ em \in {NewEmitter(n) : n \in 1..MaxListeners}
  /\ rd = NewReader(<<>>)

EmitterNext ==
  \/ addListener
  \/ disposeListener
  \/ removeListener
  \/ removeManyListeners
  \/ emit
  \/ fire

EmitterSpec == EmitterInit /\ [][EmitterNext]_vars

\* One GET on the socket transport with a redirect budget of 0: its body,
\* the accessor calls and the token.
BufferedOptionSets == [followRedirects : {0}, delay : {0}, method : {"GET"},
                       url : {<<"https:", "//", "host", "/a", "/b">>},
                       timeout : {Absent}, headers : {"absent"},
                       user : {<<>>}, password : {<<>>},
                       payload : {"absent"}, strictSSL : {"absent"},
                       agent : {NoAgent}]

BufferedInit ==
  /\ InitWith(BufferedOptionSets, {NoProxy}, {NoHdr})
  /\ transport = "node"

BufferedNext ==
  \/ request
  \/ handler
  \/ cancel
  \/ OnData
  \/ OnEnd
  \/ CallAccessor
  \/ Resume

BufferedSpec == BufferedInit /\ [][BufferedNext]_vars

\* A reader constructed over each buffer, then any reads on it.
ReaderInit ==
  /\ InitRest(IdleOptionSets, {NoProxy}, {NoHdr}, {PlainReply})
  /\ em = NewEmitter(DefaultMaxListeners)
  /\ rd \in {NewReader(buffer) : buffer \in Buffers}

ReaderNext == read

ReaderSpec == ReaderInit /\ [][ReaderNext]_vars

\* Redirect chains of requests that set every option, with the module
\* configuration changing and the token being signalled along the way.
DeriveOptionSets == [followRedirects : 1..MaxHops, delay : {0, 1},
                     method : {"HEAD"},
                     url : {<<"http:", "//", "host", ":8080", "/a">>},
                     timeout : {1}, headers : {"native"},
                     user : {<<97>>}, password : {<<112>>},
                     payload : {"stream"},
                     strictSSL : {"absent", "false"},
                     agent : {NoAgent}]

DeriveInit == InitWith(DeriveOptionSets, {NoProxy}, {NoHdr})

DeriveNext ==
  \/ request
  \/ DelayElapsed
  \/ handler
  \/ configure
  \/ cancel

DeriveSpec == DeriveInit /\ [][DeriveNext]_vars

\* Redirect chains behind environment proxies: no agent from the caller,
\* replies that redirect within the scheme and across it.
ChainOptionSets == [followRedirects : {1}, delay : {0}, method : {"GET"},
                    url : Urls,
                    timeout : {Absent}, headers : {"absent"},
                    user : {<<>>}, password : {<<>>},
                    payload : {"absent"}, strictSSL : {"absent"},
                    agent : {NoAgent}]

ChainEnvs == [HTTP_PROXY : ProxyUrls("HTTP_PROXY"),
              http_proxy : {NoUrl},
              HTTPS_PROXY : ProxyUrls("HTTPS_PROXY"),
              https_proxy : {NoUrl}]

ChainInit ==
  InitWith(ChainOptionSets,
           [proxyUrl : {NoUrl}, strictSSL : {"true"}, env : ChainEnvs],
           {NoHdr})

ChainNext == request \/ handler \/ fetchResolved

ChainSpec == ChainInit /\ [][ChainNext]_vars

\* ------------------------------------------------------------------ claims
\* The hop budget N the chain starts with (request.ts:50-52).
BudgetN ==
  IF hist.input.followRedirects = Absent
  THEN DefaultFollowRedirects
  ELSE hist.input.followRedirects

Is3xx(status) == status >= 300 /\ status < 400

\* C1: on the socket transport, with hop budget N and every reply a 3xx with
\* a Location header, the chain never makes more than N+1 dispatch attempts;
\* the (N+1)-th reply ends it, resolving the caller's promise with that 3xx
\* response after exactly N redirects, and the promise resolves at no
\* earlier reply.
C1_RedirectBudget ==
  (transport = "node" /\ hist.allRedirect) =>
    /\ hop <= BudgetN + 1
    /\ opened <= BudgetN + 1
    /\ hist.replies <= BudgetN + 1
    /\ (hist.replies = BudgetN + 1 =>
          /\ outcome = Resolved
          /\ resp.impl = "node" /\ Is3xx(resp.status)
          /\ hop = BudgetN + 1
          /\ opened = BudgetN + 1)
    /\ (outcome.state = "resolved" => hist.replies = BudgetN + 1)

C1_Witness ==
  /\ transport = "node" /\ hist.allRedirect
  /\ BudgetN = MaxHops
  /\ hist.replies = BudgetN + 1
  /\ outcome = Resolved /\ Is3xx(resp.status)

\* C2: on the socket transport the terminal response has redirected = true
\* exactly when at least one redirect hop preceded it.
C2_RedirectedFlag ==
  (transport = "node" /\ resp.impl = "node") => (resp.redirected <=> hop > 1)

\* C6: a token signalled before request() is called makes the dispatch fail
\* with ERR_TOKEN_CANCELLED: the promise never resolves, no transport request
\* is ever created, and once the dispatch is over its promise is rejected
\* with the cancellation kind (both transports).
C6_CancelledBeforeDispatch ==
  hist.cancelledAt = "start" =>
    /\ opened = 0
    /\ req = "none"
    /\ outcome.state # "resolved"
    /\ phase \in {"start", "delay", "done"}
    /\ (phase = "done" => outcome = Rejected("ERR_TOKEN_CANCELLED"))

C6_Witness ==
  /\ hist.cancelledAt = "start"
  /\ phase = "done"
  /\ opened = 0
  /\ outcome = Rejected("ERR_TOKEN_CANCELLED")

\* Number of subscriptions attempt h has made on the token.
SubsOf(h) == Cardinality({i \in DOMAIN token.listeners : token.listeners[i].hop = h})

\* C7: each dispatch attempt registers exactly one subscription on the
\* token, and a token signalled while the transport request is in flight
\* aborts that request and fails the dispatch with ERR_TOKEN_CANCELLED and
\* no other kind (both transports).
C7_CancelInFlight ==
  /\ (phase = "inflight" => SubsOf(hop) = 1)
  /\ (hist.cancelledAt = "inflight" =>
        /\ req = "destroyed"
        /\ outcome = Rejected("ERR_TOKEN_CANCELLED"))

\* C8: a token signalled while the dispatch is suspended in its pre-send
\* delay: no transport request is opened from then on, the promise never
\* resolves, it is rejected with ERR_TOKEN_CANCELLED when the delay is over,
\* and the delay does get over.
C8_Safe ==
  hist.cancelledAt = "delay" =>
    /\ opened = hist.openedAtCancel
    /\ req \in {"none", "replied"}
    /\ outcome.state # "resolved"
    /\ phase \in {"delay", "done"}
    /\ (phase = "done" => outcome = Rejected("ERR_TOKEN_CANCELLED"))

C8_CancelDuringDelay ==
  /\ []C8_Safe
  /\ (hist.cancelledAt = "delay") ~> (outcome = Rejected("ERR_TOKEN_CANCELLED"))

C8_Witness ==
  /\ hist.cancelledAt = "delay"
  /\ phase = "done"
  /\ opened = hist.openedAtCancel
  /\ outcome = Rejected("ERR_TOKEN_CANCELLED")


\* C3: on both response implementations, a body accessor called after an
\* earlier accessor call on the same response has completed fails with
\* ERR_RESOURCE_ALREADY_CONSUMED, whichever the two accessors are.
C3_SecondAccessorFails ==
  \A i \in DOMAIN calls :
    calls[i].afterSettled =>
      /\ calls[i].phase = "failed"
      /\ calls[i].kind = "ERR_RESOURCE_ALREADY_CONSUMED"

\* C4: of the accessor calls made on a body-bearing response while its body
\* is still being buffered, at most one is delivered the body.
ReadWhileBuffering ==
  {i \in DOMAIN calls : /\ calls[i].buffering
                        /\ calls[i].phase = "resolved"
                        /\ calls[i].value = "some"
                        /\ calls[i].data = Payload(body.total)}

C4_BodyDeliveredOnce ==
  (resp.impl # "none" /\ ~hasNoBody(options.method, resp.status)
   /\ body.total > 0) =>
    Cardinality(ReadWhileBuffering) <= 1

\* C5: on a socket-transport response whose request method is HEAD or whose
\* status is 1xx, 204 or 304, no accessor call waits for the transport body
\* and every accessor call that resolves yields the absent value.
C5_BodyLessIsAbsent ==
  (resp.impl = "node" /\ hasNoBody(options.method, resp.status)) =>
    \A i \in DOMAIN calls :
      /\ calls[i].phase # "waitEnd"
      /\ (calls[i].phase = "resolved" => calls[i].value = "none")

\* C9: on the socket transport, an accessor call that is waiting for the
\* body when the token is signalled eventually fails.
C9_PendingAccessorFails ==
  \A i \in 1..MaxCalls :
    [](((transport = "node" /\ i \in hist.waitingAtCancel))
         => <>(i \in DOMAIN calls /\ calls[i].phase = "failed"))

\* C10: on the socket transport, an accessor called after the token was
\* signalled on a fully buffered body does not wait, and what it resolves
\* with is the complete body -- unless it is readableSource() and an earlier
\* readableSource() call, which empties the writer with or without a
\* cancellation, was made before it.  (formData() never yields a body.)
TookChunksBefore(i) ==
  /\ calls[i].name = "readableSource"
  /\ \E j \in 1..(i - 1) : calls[j].name = "readableSource"

C10_CancelAfterEndKeepsBody ==
  \A i \in DOMAIN calls :
    (resp.impl = "node" /\ calls[i].afterCancel) =>
      /\ calls[i].phase # "waitEnd"
      /\ (calls[i].phase = "resolved" /\ calls[i].name # "formData"
          /\ ~TookChunksBefore(i)) =>
            /\ calls[i].value = "some"
            /\ calls[i].data = Payload(body.total)

C10_Witness ==
  \E i \in DOMAIN calls :
    /\ resp.impl = "node"
    /\ body.total = MaxChunks
    /\ calls[i].afterCancel
    /\ calls[i].phase = "resolved"
    /\ calls[i].value = "some"
    /\ calls[i].data = Payload(MaxChunks)


\* The request of attempt h got an answer of some kind, or the token fired.
Answered(h) ==
  \/ hop # h
  \/ req = "replied"
  \/ token.cancelled
  \/ outcome.kind = "ERR_TRANSPORT"

\* C11: on both transports, a dispatch with a timeout T > 0 whose transport
\* request never gets an answer eventually fails with ERR_TIMEOUT, and
\* fails with no other kind.
C11_TimeoutFails ==
  /\ \A h \in 1..(MaxHops + 1) :
       []((req = "open" /\ hop = h /\ options.timeout > 0)
            => <>(outcome = Rejected("ERR_TIMEOUT") \/ Answered(h)))
  /\ []((options.timeout > 0 /\ outcome.state = "rejected"
         /\ ~token.cancelled /\ outcome.kind # "ERR_TRANSPORT")
           => outcome.kind = "ERR_TIMEOUT")

\* C12: on the fetch transport with a timeout, a timer that fires on the
\* open fetch aborts it and the dispatch fails with ERR_TIMEOUT; once fetch
\* has settled first, the timer never aborts the signal of the response.
C12_OnlyLoserAborted ==
  transport = "fetch" =>
    /\ (hist.timedOut /\ ~token.cancelled =>
          /\ req = "destroyed"
          /\ outcome = Rejected("ERR_TIMEOUT"))
    /\ ~hist.lateAbort

\* A Location beginning with '/' put behind the scheme, host and port of the
\* URL it was received for; any other Location as it is.
ResolvedLocation(from, location) ==
  IF location # <<>> /\ Head(location) \in {"/a", "/b", "/c", "/x", "//"}
  THEN LET e == parseUrl(from)
       IN <<e.protocol, "//", e.hostname>>
            \o (IF e.port = "" THEN <<>> ELSE <<e.port>>)
            \o location
  ELSE location

\* C13: in a socket-transport redirect step the next dispatch targets the
\* Location, resolved against scheme, host and port of the redirected
\* request when it begins with '/', verbatim otherwise.
C13_RedirectTargetUrl ==
  (transport = "node" /\ hop > 1) =>
    options.url = ResolvedLocation(hist.from, hist.location)

\* C14: a dispatch, redirect hops included, writes no field of the options
\* object the caller passed and adds nothing to the caller's native header
\* set (both transports).
C14_CallerOptionsUnchanged == callerOptions = hist.input

\* A name lower-cased, and trimmed as well when trimmed is set.
NormalizedName(k, trimmed) ==
  IF trimmed THEN trim(toLowerCase(k)) ELSE toLowerCase(k)

\* The values an input supplies for the names that are n once normalized,
\* in their order: the strings of an array one by one, nothing for
\* undefined.
RECURSIVE Supplied(_, _, _)
Supplied(items, n, trimmed) ==
  IF items = <<>> THEN <<>>
  ELSE (IF NormalizedName(Head(items).key, trimmed) = n
        THEN Head(items).value.items ELSE <<>>)
       \o Supplied(Tail(items), n, trimmed)

\* The values a header set holds for name n, in their order.
RECURSIVE Held(_, _)
Held(h, n) ==
  IF h = <<>> THEN <<>>
  ELSE (IF Head(h).name = n THEN <<Head(h).value>> ELSE <<>>) \o Held(Tail(h), n)

SuppliedBy(src, n) ==
  IF src.form = "native" THEN Held(src.items, n)
  ELSE Supplied(src.items, n, TRUE)

HeaderNamesNormalized ==
  {NormalizedName(k, TRUE) : k \in HeaderNames} \cup {<<"a">>, <<"b">>}

\* Two inputs with the same names and, per name, the same values in the
\* same order; names are compared as header names are, without regard to
\* case and to blanks around them.
Equivalent(x, y) ==
  \A n \in HeaderNamesNormalized : SuppliedBy(x, n) = SuppliedBy(y, n)

\* C15: equivalent header inputs, whichever of the three forms each comes
\* in, give structurally identical results: parseHeaders the same values
\* in the same order under each name, headersEntries the same pair list.
C15_FormsAgree ==
  (hdr.step >= 1 /\ hdr.b.form # "none" /\ Equivalent(hdr.a, hdr.b)) =>
    /\ hdr.ea = hdr.eb
    /\ \A n \in HeaderNamesNormalized : Held(hdr.pa, n) = Held(hdr.pb, n)
    /\ \A i \in DOMAIN hdr.pa : hdr.pa[i].name \in HeaderNamesNormalized

C15_Witness ==
  /\ hdr.step >= 1
  /\ hdr.a.form = "pairs" /\ hdr.b.form = "native"
  /\ Len(hdr.a.items) = MaxHeaders /\ Len(hdr.b.items) = MaxHeaders
  /\ Equivalent(hdr.a, hdr.b)
  /\ hdr.a.items[1].key = <<"b">> /\ hdr.a.items[2].key = <<"A">>
  /\ hdr.b.items[1].name = <<"a">>
  /\ hdr.ea = hdr.eb /\ Len(hdr.ea) = 2

\* C16: header normalization is idempotent: headersEntries of its own
\* result is that result, and parseHeaders of its own result is an equal
\* header set.
C16_Idempotent ==
  hdr.step = 2 => (hdr.ea2 = hdr.ea /\ hdr.pa2 = hdr.pa)

C16_Witness ==
  /\ hdr.step = 2
  /\ hdr.a.form = "pairs"
  /\ Len(hdr.ea) = 2
  /\ \E i \in DOMAIN hdr.ea : hdr.ea[i].value.kind = "array"
  /\ hdr.ea2 = hdr.ea

\* The values headersEntries reports for name n.
RECURSIVE Reported(_, _)
Reported(es, n) ==
  IF es = <<>> THEN <<>>
  ELSE (IF Head(es).key = n THEN Head(es).value.items ELSE <<>>)
       \o Reported(Tail(es), n)

\* C17: for pair and mapping input, what headersEntries reports for a
\* lower-cased, trimmed name is exactly the values supplied for it, in
\* their order, undefined ones left out; one supplied value is reported as
\* one string, k values as a list of k.
C17_ValuesPreserved ==
  (hdr.step >= 1 /\ hdr.a.form \in {"pairs", "mapping"}) =>
    \A n \in HeaderNamesNormalized :
      /\ Reported(hdr.ea, n) = Supplied(hdr.a.items, n, TRUE)
      /\ \A i \in DOMAIN hdr.ea :
           hdr.ea[i].key = n =>
             (hdr.ea[i].value.kind = "string"
                <=> Len(Supplied(hdr.a.items, n, TRUE)) = 1)

\* The first candidate that is set, <<>> when none is.
RECURSIVE FirstSet(_)
FirstSet(cands) ==
  IF cands = <<>> THEN <<>>
  ELSE IF Head(cands) # <<>> THEN Head(cands) ELSE FirstSet(Tail(cands))

\* The proxy candidates for a destination scheme in their precedence: the
\* configured URL, then the environment values of the scheme.
ProxyCandidates(px, scheme) ==
  <<px.proxyUrl>> \o
    (IF scheme = "http:" THEN <<px.env.HTTP_PROXY, px.env.http_proxy>>
     ELSE <<px.env.HTTPS_PROXY, px.env.https_proxy,
            px.env.HTTP_PROXY, px.env.http_proxy>>)

\* C18: the agent of a socket-transport dispatch is the explicit agent when
\* the caller gave one; else the proxy agent for the first proxy candidate
\* that is set, in the order configured URL, environment values of the
\* destination scheme; and no agent when that candidate does not begin with
\* http: or https:, or when no candidate is set.
C18_AgentPrecedence ==
  (transport = "node" /\ hop >= 1) =>
    LET first == FirstSet(ProxyCandidates(hist.proxy, hist.input.url[1]))
    IN /\ opts.agent = options.agent
       /\ IF hist.input.agent = ExplicitAgent
          THEN options.agent = ExplicitAgent
          ELSE IF first # <<>> /\ first[1] \in {"http:", "https:"}
               THEN /\ options.agent.kind \in {"HttpProxyAgent", "HttpsProxyAgent"}
                    /\ options.agent.url = first
               ELSE options.agent = NullAgent

C18_Witness ==
  /\ transport = "node" /\ hop >= 1
  /\ hist.input.agent = NoAgent
  /\ hist.input.url[1] = "https:"
  /\ hist.proxy.proxyUrl = <<"socks:", "//", "configured">>
  /\ hist.proxy.env.HTTPS_PROXY = <<"http:", "//", "HTTPS_PROXY">>
  /\ options.agent = NullAgent

\* C19: when the caller leaves followRedirects out, the hop budget is 5 on
\* both transports: the socket transport starts its chain with a budget of
\* 5 and follows at most 5 redirects, the fetch transport dispatches with
\* redirect policy "follow".
C19_DefaultBudget ==
  hist.input.followRedirects = Absent =>
    /\ (transport = "node" /\ hop >= 1) =>
          /\ options.followRedirects = DefaultFollowRedirects - (hop - 1)
          /\ hop <= DefaultFollowRedirects + 1
    /\ (transport = "fetch" /\ opened >= 1) => opts.redirect = "follow"

\* C20: on the fetch transport the redirect policy handed to the engine is
\* "follow" exactly when followRedirects is supplied and not 0, "manual"
\* otherwise, and the dispatcher calls fetch once, whatever the reply.
C20_FetchRedirectPolicy ==
  transport = "fetch" =>
    /\ hop <= 1
    /\ opened <= 1
    /\ opened = 1 =>
         opts.redirect = IF hist.input.followRedirects \notin {Absent, 0}
                         THEN "follow" ELSE "manual"

C20_Witness ==
  /\ transport = "fetch"
  /\ hist.input.followRedirects = Absent
  /\ opened = 1
  /\ opts.redirect = "manual"
  /\ phase = "done"
  /\ resp.impl = "browser" /\ resp.status = 302

\* C21 as stated: each response instance fires headers-received exactly
\* once over its lifetime, on both transports, whatever on / once / off calls
\* are made on it: never twice, and once by the time the instance is
\* disposed.
C21_FiresExactlyOnce ==
  /\ ev.fired <= 1
  /\ (ev.disposed => ev.fired = 1)

\* C21 as amended: each response instance fires headers-received at most
\* once, whatever on / once / off calls are made on it: a socket-transport
\* response exactly once, within its construction; a fetch-transport
\* response only after an on / once call for headers-received, and never
\* without one.
C21_FiresAtMostOnce ==
  /\ ev.fired <= 1
  /\ (resp.impl = "node" => ev.fired = 1)
  /\ (resp.impl = "browser" /\ ~ev.asked => ev.fired = 0 /\ ev.scheduled = 0)

C21_Witness ==
  /\ resp.impl = "browser"
  /\ ev.subs = MaxSubs
  /\ ev.fired = 1
  /\ ev.seen["l1"] = 0

\* C22: a listener that subscribes to headers-received as soon as the caller
\* has received the response observes the notification, and observes it
\* before any body accessor call on that response resolves: once a call has
\* resolved, every such listener has been notified.
C22_HeadersBeforeBody ==
  (\E i \in DOMAIN calls : calls[i].phase = "resolved") =>
    \A l \in ev.early : ev.seen[l] >= 1

\* Number of bytes in the first n chunks the transport delivers.
RECURSIVE BytesUpTo(_, _)
BytesUpTo(wire, n) ==
  IF n = 0 THEN 0 ELSE BytesUpTo(wire, n - 1) + Len(wire[n])

\* C23: on the socket transport there is one progress notification per
\* received body chunk, in arrival order, whose loaded is the number of
\* bytes received so far (so loaded strictly increases) and whose total is
\* the declared content-length, 0 if absent, the same in every
\* notification; a fetch-transport response emits no progress.
C23_ProgressPerChunk ==
  /\ (resp.impl = "browser" => ev.progress = <<>>)
  /\ (resp.impl = "node" =>
        /\ Len(ev.progress) = body.delivered
        /\ \A i \in DOMAIN ev.progress :
             /\ ev.progress[i].loaded = BytesUpTo(reply.wire, i)
             /\ (i > 1 => ev.progress[i].loaded > ev.progress[i - 1].loaded)
             /\ (reply.contentLength = Absent => ev.progress[i].total = 0)
             /\ (reply.contentLength >= 0 =>
                   ev.progress[i].total = reply.contentLength))

C23_Witness ==
  /\ resp.impl = "node"
  /\ reply.contentLength = MaxChunks + 1
  /\ body.state = "ended"
  /\ Len(ev.progress) = MaxChunks
  /\ ev.progress[1].loaded > 1

\* C24: dispose() releases the underlying transport resource and is
\* idempotent: the first call on a response whose body is still arriving
\* releases the transport stream, whether or not an accessor was called, and
\* every further call changes nothing.
C24_DisposeReleases ==
  [][ev'.disposals > ev.disposals =>
       IF ev.disposals = 0
       THEN body.state = "flowing" => pipe'.released
       ELSE /\ resp' = resp
            /\ body' = body
            /\ calls' = calls
            /\ pipe' = pipe
            /\ ev' = [ev EXCEPT !.disposals = @ + 1]]_vars

\* C25: on the socket transport the decompression stage follows from the
\* reply: gzip-inflate for content-encoding gzip, inflate for deflate,
\* pass-through for any other or no encoding; and no stage at all for a
\* body-less reply (request method HEAD, status 100..199, 204 or 304),
\* whatever the encoding.
C25_StageFromReply ==
  resp.impl = "node" =>
    LET bodyLess == \/ hist.input.method = "HEAD"
                    \/ resp.status \in 100..199
                    \/ resp.status \in {204, 304}
    IN /\ (bodyLess => pipe.stage = "none")
       /\ (~bodyLess /\ reply.encoding = "gzip" => pipe.stage = "gunzip")
       /\ (~bodyLess /\ reply.encoding = "deflate" => pipe.stage = "inflate")
       /\ (~bodyLess /\ reply.encoding \notin {"gzip", "deflate"} =>
             pipe.stage = "none")

C25_Witness ==
  /\ resp.impl = "node"
  /\ hist.input.method = "HEAD"
  /\ resp.status = 200
  /\ reply.encoding = "gzip"
  /\ pipe.stage = "none"

ByteAccessors == {"bytes", "buffer", "arrayBuffer"}

C27_StreamErrorFails ==
  \A i \in 1..MaxCalls :
    []((/\ resp.impl = "node"
        /\ pipe.errored
        /\ i \in DOMAIN calls
        /\ calls[i].phase = "waitEnd")
         => <>(i \in DOMAIN calls /\ calls[i].phase = "failed"))

\* The response carries a body as its implementation sees it.
BodyBearing ==
  IF resp.impl = "node" THEN ~NodeHasNoBody(resp) ELSE ~resp.nullBody

\* The json() call has failed on the text of the body.
ParseFailed(c) ==
  /\ c.name = "json"
  /\ c.phase = "failed"
  /\ c.kind = "SyntaxError"

\* C28: on both implementations, json() on a body-bearing response whose
\* text is not valid JSON does not resolve; when it has failed with the
\* parse error the body counts as consumed, and every accessor call made
\* afterwards fails with the already-consumed kind.
C28_ParseFailureConsumes ==
  /\ \A i \in DOMAIN calls :
        /\ (calls[i].name = "json" /\ BodyBearing /\ ~body.isJson)
             => calls[i].phase # "resolved"
        /\ ParseFailed(calls[i]) => resp.bodyUsed
  /\ \A j \in DOMAIN calls :
        calls[j].afterParseError
          => /\ calls[j].phase = "failed"
             /\ calls[j].kind = "ERR_RESOURCE_ALREADY_CONSUMED"

C28_Witness ==
  \E i, j \in DOMAIN calls :
    /\ ParseFailed(calls[i]) /\ BodyBearing /\ ~body.isJson
    /\ resp.bodyUsed
    /\ calls[j].afterParseError
    /\ calls[j].kind = "ERR_RESOURCE_ALREADY_CONSUMED"

\* C29: in a redirect chain on the socket transport every hop after the
\* first has its own subscription on the token; a token signalled while
\* such a hop is in flight aborts that hop's request and fails the dispatch
\* with ERR_TOKEN_CANCELLED; and once the token is signalled no later hop
\* opens a transport request.
C29_CancelAtLaterHop ==
  transport = "node" =>
    /\ (phase = "inflight" /\ hop >= 2) => SubsOf(hop) >= 1
    /\ (hist.cancelledAt = "inflight" /\ hist.openedAtCancel >= 2) =>
          /\ req = "destroyed"
          /\ outcome = Rejected("ERR_TOKEN_CANCELLED")
    /\ (token.cancelled /\ hist.openedAtCancel >= 1) =>
          opened = hist.openedAtCancel

\* The text a base64 string stands for.
RECURSIVE atob(_)
atob(sextets) ==
  IF Len(sextets) < 4 THEN <<>>
  ELSE LET s1 == sextets[1]
           s2 == sextets[2]
           s3 == sextets[3]
           s4 == sextets[4]
           b1 == s1 * 4 + (s2 \div 16)
       IN IF s3 = Pad THEN <<b1>>
          ELSE LET b2 == (s2 % 16) * 16 + (s3 \div 4)
               IN IF s4 = Pad THEN <<b1, b2>>
                  ELSE <<b1, b2, (s3 % 4) * 64 + s4>>
                       \o atob(SubSeq(sextets, 5, Len(sextets)))

\* C30: the request the fetch transport sends carries the Authorization
\* header exactly when the caller gave a non-empty user and a non-empty
\* password; its value is Basic followed by the base64 text of
\* user:password; and the request URL is the caller's URL, without the
\* credentials.
C30_BasicAuthorization ==
  (transport = "fetch" /\ opened >= 1) =>
    LET u == hist.input.user
        p == hist.input.password
    IN /\ opts.authorization.scheme = "Basic" <=> (u # <<>> /\ p # <<>>)
       /\ opts.authorization.scheme = "Basic"
            => /\ \A i \in DOMAIN opts.authorization.value :
                    opts.authorization.value[i] \in 0..Pad
               /\ atob(opts.authorization.value) = u \o <<Colon>> \o p
       /\ opts.authorization.scheme # "Basic"
            => opts.authorization = NoAuthorization
       /\ opts.url = hist.input.url

C30_Witness ==
  /\ transport = "fetch"
  /\ opened = 1
  /\ hist.input.user = <<233>>
  /\ opts.authorization.scheme = "Basic"
  /\ opts.authorization.value[Len(opts.authorization.value)] = Pad

\* C31: on the socket transport a reply is treated as a redirect exactly
\* when it is a 3xx with a Location header and the hop budget is above
\* zero; any other reply is materialized as the terminal response, and
\* once there is a terminal response no further dispatch is started.
C31_RedirectOnlyWhenDue ==
  [][/\ (transport = "node" /\ hist'.replies = hist.replies + 1)
          => /\ hist.allRedirect
             /\ (hop' = hop + 1)
                  <=> (hist'.allRedirect /\ options.followRedirects > 0)
             /\ (hop' # hop + 1)
                  => /\ hop' = hop /\ opened' = opened
                     /\ resp.impl = "none" /\ resp'.impl = "node"
                     /\ outcome' = Resolved
                     /\ phase' = "done"
     /\ (transport = "node" /\ resp.impl = "node")
          => (hop' = hop /\ opened' = opened /\ req' = req)]_vars

C31_Witness ==
  /\ transport = "node"
  /\ resp.impl = "node"
  /\ hop >= 2
  /\ hist.allRedirect
  /\ resp.status \in {302, 304}
  /\ options.followRedirects = 0
  /\ opened = hop

\* The step is a redirect of the socket transport: the reply of hop `hop`
\* starts hop `hop + 1`.
RedirectStep == transport = "node" /\ hop >= 1 /\ hop' = hop + 1

\* C32: the options of a redirect hop differ from those of the hop being
\* redirected in the URL and in the hop budget, which is one less; method,
\* headers, payload, timeout, delay, strictSSL, user, password and the
\* token are the same.
C32_DerivedOptions ==
  [][RedirectStep =>
       /\ options'.followRedirects = options.followRedirects - 1
       /\ options'.method = options.method
       /\ options'.headers = options.headers
       /\ options'.payload = options.payload
       /\ options'.timeout = options.timeout
       /\ options'.delay = options.delay
       /\ options'.strictSSL = options.strictSSL
       /\ options'.user = options.user
       /\ options'.password = options.password
       /\ token'.cancelled = token.cancelled
       /\ SubSeq(token'.listeners, 1, Len(token.listeners)) = token.listeners
       /\ callerOptions' = callerOptions]_vars

C32_Witness ==
  /\ transport = "node"
  /\ hop = 3
  /\ options.delay = 1
  /\ options.strictSSL = "true" /\ hist.input.strictSSL = "absent"
  /\ proxy.strictSSL = "false"
  /\ options.followRedirects = hist.input.followRedirects - 2

\* C33: when the caller supplies no agent, the transport request of every
\* hop of a chain on the socket transport is made with the agent that
\* getProxyAgent resolves for the URL of that hop.
C33_AgentOfEachHop ==
  (transport = "node" /\ hop >= 1 /\ hist.input.agent = NoAgent) =>
    opts.agent = getProxyAgent(options.url, proxy.proxyUrl, proxy.env)

\* C34: on both implementations bodyUsed is false when the response is
\* constructed, never goes back from true to false, and is true once some
\* accessor call on the response has resolved.
C34_BodyUsedMonotone ==
  [][/\ (resp.impl = "none" /\ resp'.impl # "none") => ~resp'.bodyUsed
     /\ resp.bodyUsed => resp'.bodyUsed
     /\ (\E i \in DOMAIN calls' : calls'[i].phase = "resolved")
          => resp'.bodyUsed]_vars

\* C35: on the socket transport, an accessor call that is pending when
\* dispose() is called on the response (whose stream has not failed)
\* eventually resolves or fails.
C35_PendingAtDisposeSettles ==
  \A i \in 1..MaxCalls :
    []((/\ resp.impl = "node"
        /\ ev.disposed
        /\ ~pipe.errored
        /\ i \in DOMAIN calls
        /\ ~calls[i].afterDispose
        /\ calls[i].phase \in {"waitEnd", "ready"})
         => <>(i \in DOMAIN calls /\ calls[i].phase \in {"resolved", "failed"}))

\* C36: disposing the handle addListener(event, f) returned removes at most
\* the listener f of that event: every other registered listener, of that
\* event or another, is still registered afterwards and none is added,
\* whatever calls were made before.
C36_DisposerRemovesOnlyItsListener ==
  [][\A k \in DOMAIN em.handles :
       (~em.handles[k].disposed /\ em'.handles[k].disposed)
         => \A event \in EmEvents, cb \in Callbacks :
              /\ (/\ Registered(em, event, cb)
                  /\ ~(event = em.handles[k].event /\ cb = em.handles[k].cb))
                   => Registered(em', event, cb)
              /\ Registered(em', event, cb) => Registered(em, event, cb)]_vars

\* C37: a listener registered with once is invoked at most one time, also
\* when the event is emitted again from inside a listener, and once it has
\* been invoked it is no longer registered.
C37_OnceRunsOnce ==
  /\ em.onceRuns <= 1
  /\ \A event \in EmEvents, cb \in Callbacks :
        Registered(em, event, cb)
          => LET entry == EntryOf(em.buckets[em.map[event]], cb)
             IN entry.once => entry.runs = 0

\* C38: addListener of a new callback on an event that has maxListeners
\* listeners fails with ERR_LIMIT_REACHED and changes no listener set;
\* adding a registered callback again succeeds and changes no count; below
\* the cap a new callback is registered; and no event ever has more
\* listeners than the cap.
C38_ListenerCap ==
  [][/\ (em'.ops = em.ops + 1 /\ em'.last.op = "addListener")
          => LET event == em'.last.event
                 cb == em'.last.cb
             IN /\ Registered(em, event, cb)
                     => /\ em'.last.result = "ok"
                        /\ \A e \in EmEvents :
                              listenerCount(em', e) = listenerCount(em, e)
                /\ (~Registered(em, event, cb)
                      /\ listenerCount(em, event) >= em.max)
                     => /\ em'.last.result = "ERR_LIMIT_REACHED"
                        /\ \A e \in EmEvents, c \in Callbacks :
                              Registered(em', e, c) <=> Registered(em, e, c)
                /\ (~Registered(em, event, cb)
                      /\ listenerCount(em, event) < em.max)
                     => /\ em'.last.result = "ok"
                        /\ Registered(em', event, cb)
     /\ \A e \in EmEvents : listenerCount(em', e) <= em'.max]_vars

C38_Witness ==
  /\ em.last.op = "addListener"
  /\ em.last.result = "ERR_LIMIT_REACHED"
  /\ em.max = MaxListeners
  /\ listenerCount(em, em.last.event) = em.max
  /\ ~Registered(em, em.last.event, em.last.cb)

\* C39: after any reads on a BufferReader the slices returned so far,
\* concatenated, are a prefix of the buffer whose length is the cursor, at
\* most the buffer's length; byteLength is the buffer's length minus the
\* bytes returned; readable holds exactly when byteLength > 0; and a read
\* on a consumed reader fails with ERR_END_OF_STREAM.
C39_ReaderSlices ==
  /\ Len(rd.returned) = rd.cursor
  /\ rd.cursor <= Len(rd.buffer)
  /\ rd.returned = SubSeq(rd.buffer, 1, rd.cursor)
  /\ byteLength(rd) = Len(rd.buffer) - Len(rd.returned)
  /\ readable(rd) <=> byteLength(rd) > 0
  /\ rd.wasConsumed => rd.last.result = "ERR_END_OF_STREAM"
====
